---- MODULE Spec2Model ----
(***************************************************************************)
(* The stream orchestrator (usecasualresearchStream), the Turn engine it   *)
(* drives and the tool scheduler it feeds, as one state machine.           *)
(*                                                                         *)
(* JavaScript runs one callback at a time, so an action is the code that   *)
(* runs between two awaits.  React state (isResponding, toolCalls) and     *)
(* refs are read at their current value.                                   *)
(***************************************************************************)
EXTENDS Integers, Sequences, FiniteSets, TLC

\* ---------------------------------------------------------------- bounds
\* The prompts a session accepts, the raw responses the backend delivers in a
\* session and the tool calls of a session.
MaxPrompts == 2
MaxResponses == 2
MaxCalls == 2

\* The discoverMcpTools calls of a session, the client error callbacks fired
\* in it, the nesting depth of a parameter schema and the chunks of a
\* streamed response body.
MaxDiscoveries == 2
MaxClientErrors == 1
MaxDepth == 1
MaxChunks == 3
\* The tool calls of one router message or delta, the contents of one request.
MaxToolCalls == 2
MaxContents == 2
\* The messages of the chat history checkNextSpeaker looks at.
MaxHistory == 3
\* The escape key presses one auth dialog receives.
MaxEscapes == 2
\* The paths of one filterFiles call.
MaxPaths == 2

\* ------------------------------------------------------------ sequences
RECURSIVE Flatten(_)
Flatten(ss) ==
    IF ss = <<>> THEN <<>> ELSE Head(ss) \o Flatten(Tail(ss))

MapSeq(Op(_), s) == [i \in 1..Len(s) |-> Op(s[i])]

Range(s) == {s[i] : i \in 1..Len(s)}

\* ------------------------------------------------------------ data model
NoItem == [type |-> "none", text |-> <<>>]

Item(type, text) == [type |-> type, text |-> text]

\* The item an API error is reported with.
ErrorItem == Item("error", << "API error" >>)

TerminalStatus == {"success", "error", "cancelled"}

\* A Part of a tool response, tagged with the call it answers.
FunctionResponsePart(c) == [k |-> "functionResponse", id |-> c]
TextPart(c) == [k |-> "text", id |-> c]
StringItem(c) == [k |-> "string", id |-> c]

\* A PartListUnion is a Part, an array of Parts, or a string.
ResponseShapes == {"part", "array", "string"}

ResponseParts(c, shape) ==
    CASE shape = "part" -> [tag |-> "part", parts |-> <<FunctionResponsePart(c)>>]
      [] shape = "array" ->
            [tag |-> "array", parts |-> <<FunctionResponsePart(c), TextPart(c)>>]
      [] OTHER -> [tag |-> "string", parts |-> <<StringItem(c)>>]

\* The raw responses a backend stream may deliver.  ids: the id field of each
\* function call, << >> when the backend omits it, << id >> when it supplies it.
Response(thought, text, ncalls, finish) ==
    [thought |-> thought, text |-> text, ncalls |-> ncalls, finish |-> finish,
     ids |-> [i \in 1..ncalls |-> <<>>]]

\* A response of function calls with the given id fields.
ResponseWithIds(ids) ==
    [thought |-> FALSE, text |-> <<>>, ncalls |-> Len(ids), finish |-> "NONE",
     ids |-> ids]

\* The raw responses the backend may deliver: text, function calls, a finish
\* reason, a thought.
Responses ==
    { Response(FALSE, <<"b">>, 0, "STOP"),
      Response(FALSE, <<>>, 1, "NONE"),
      Response(FALSE, <<"a">>, 2, "MAX_TOKENS"),
      Response(TRUE, <<"b">>, 1, "STOP") }

\* The ids a backend may put on its function calls.
BackendIds == {101, 102}

\* Responses of function calls whose ids the backend supplies or omits.
IdResponses ==
    {ResponseWithIds(<< <<id>> >>) : id \in BackendIds}
        \cup {ResponseWithIds(<< <<>> >>), ResponseWithIds(<< <<101>>, <<>> >>)}

\* Responses of text alone.
TextResponses ==
    { Response(FALSE, <<"a">>, 0, "NONE"),
      Response(FALSE, <<"b">>, 0, "STOP") }

QueryKinds == {"text", "empty", "handled", "tool", "submit"}

VARIABLES
    isResponding,                 \* useState isResponding
    toolCalls,                    \* the scheduler's tracked tool calls
    turnCancelledRef,             \* turnCancelledRef.current
    abortControllerRef,           \* the submission whose controller is current (0: none)
    pendingHistoryItemRef,        \* pendingHistoryItemRef.current (NoItem: null)
    history,                      \* the UI history (addItem)
    clientHistory,                \* the client's conversation history
    promptCount,                  \* the session's prompt counter
    modelSwitchedFromQuotaError,  \* the quota fallback flag
    subs,                         \* the submitQuery calls made, in call order
    sent,                         \* the messages passed to sendMessageStream
    nextCall,                     \* the number of call ids allocated
    nextBatch,                    \* the number of schedule calls made
    cancelSubmitCount,            \* the number of onCancelSubmit calls
    keyTick,                      \* flips at every escape key event
    authErrorCount,               \* the number of onAuthError calls
    serverStatuses,               \* mcp-client: the serverStatuses map
    statusLog,                    \* the statuses notified since a server's latest run began
    mcpRuns,                      \* the latest connectAndDiscover run of each server
    toolRegistry,                 \* the tools registered, as << server, tool >>
    promptRegistry,               \* the prompts registered, as << server, prompt >>
    mcpDiscoveryState,            \* mcp-client: mcpDiscoveryState
    discoveries,                  \* the number of discoverMcpTools calls made
    clientErrors,                 \* the number of client error callbacks fired
    schema,                       \* the schema handed to hasValidTypes
    valid,                        \* what hasValidTypes returned for it
    body,                         \* the chunks of the router's response body
    readPos,                      \* the number of chunks read
    streamBuffer,                 \* createStreamGenerator: buffer
    yielded,                      \* the responses the generator has yielded
    generator,                    \* the generator's position
    routerData,                   \* the data handed to convertFromOpenRouterFormat
    routerResponse,               \* what it returned
    routerRequest,                \* the request handed to convertToOpenRouterFormat
    routerMessages,               \* what it returned
    chatHistory,                  \* checkNextSpeaker: the roles of chat.getHistory()
    speakerPc,                    \* the position of the checkNextSpeaker call
    generateJsonCalls,            \* the number of generateJson calls made
    jsonAnswer,                   \* how the generateJson call settled
    nextSpeakerResult,            \* what checkNextSpeaker returned
    selectedAuthType,             \* AuthDialog: settings.merged.selectedAuthType
    authEnv,                      \* the API key and default auth type of the environment
    errorMessage,                 \* AuthDialog: the message the dialog shows
    onSelectCalls,                \* the calls of onSelect
    escapes,                      \* the escape key presses received
    checkpointConfig,             \* checkpointing enabled, temp dir, git service
    toolRequests,                 \* the name and file_path of the i-th tracked call
    checkpoints,                  \* the checkpoint files written
    effectSeen,                   \* the toolCalls and history the save effect last ran with
    loopDetectedRef,              \* loopDetectedRef.current
    loopPc,                       \* the submission's position: "idle" or "stream"
    loopReceived,                 \* LoopDetected was received in the current turn
    loopPending,                  \* a pending history item is set
    loopItems,                    \* the history items added
    loopTurns,                    \* the submissions made
    filePaths,                    \* the paths given to the file discovery service
    filterOptions,                \* the options argument (<<>>: omitted)
    gitRepository,                \* the project root is a git repository
    filterResult,                 \* what filterFiles returned
    ignoreResults                 \* what shouldIgnoreFile returned for the i-th path

vars ==
    << isResponding, toolCalls, turnCancelledRef, abortControllerRef,
       pendingHistoryItemRef, history, clientHistory, promptCount,
       modelSwitchedFromQuotaError, subs, sent, nextCall, nextBatch,
       cancelSubmitCount, keyTick, authErrorCount,
       serverStatuses, statusLog, mcpRuns, toolRegistry, promptRegistry,
       mcpDiscoveryState, discoveries, clientErrors,
       schema, valid, body, readPos, streamBuffer, yielded, generator,
       routerData, routerResponse, routerRequest, routerMessages,
       chatHistory, speakerPc, generateJsonCalls, jsonAnswer,
       nextSpeakerResult,
       selectedAuthType, authEnv, errorMessage, onSelectCalls, escapes,
       checkpointConfig, toolRequests, checkpoints, effectSeen,
       loopDetectedRef, loopPc, loopReceived, loopPending, loopItems, loopTurns,
       filePaths, filterOptions, gitRepository, filterResult, ignoreResults >>

\* The state of the hook, of the turn and of the scheduler.
hookVars ==
    << isResponding, toolCalls, turnCancelledRef, abortControllerRef,
       pendingHistoryItemRef, history, clientHistory, promptCount,
       modelSwitchedFromQuotaError, subs, sent, nextCall, nextBatch,
       cancelSubmitCount, keyTick, authErrorCount >>

\* The state of the MCP client module.
mcpVars ==
    << serverStatuses, statusLog, mcpRuns, toolRegistry, promptRegistry,
       mcpDiscoveryState, discoveries, clientErrors >>

\* The argument and the result of a hasValidTypes call.
typeVars == << schema, valid >>

\* The state of one createStreamGenerator call.
sseVars == << body, readPos, streamBuffer, yielded, generator >>

\* The arguments and the results of the router's two conversions.
routerVars == << routerData, routerResponse, routerRequest, routerMessages >>

\* The state of one checkNextSpeaker call.
speakerVars ==
    << chatHistory, speakerPc, generateJsonCalls, jsonAnswer, nextSpeakerResult >>

\* The state of one auth dialog.
dialogVars ==
    << selectedAuthType, authEnv, errorMessage, onSelectCalls, escapes >>

\* The state of the hook's checkpoint effect.
checkpointVars == << checkpointConfig, toolRequests, checkpoints, effectSeen >>

\* The state of the components beside the hook, the MCP client and the
\* stream generator.
\* The loop-detected flag of the hook and what a turn does with it.
loopVars ==
    << loopDetectedRef, loopPc, loopReceived, loopPending, loopItems, loopTurns >>

\* The arguments and the results of the file discovery service's calls.
filterVars ==
    << filePaths, filterOptions, gitRepository, filterResult, ignoreResults >>

extraVars == << loopVars, filterVars >>

sideVars == << routerVars, speakerVars, dialogVars, checkpointVars, extraVars >>

\* The state of the core package outside the hook.
coreVars == << mcpVars, typeVars, sseVars, sideVars >>

HookInit ==
    /\ isResponding = FALSE
    /\ toolCalls = <<>>
    /\ turnCancelledRef = FALSE
    /\ abortControllerRef = 0
    /\ pendingHistoryItemRef = NoItem
    /\ history = <<>>
    /\ clientHistory = <<>>
    /\ promptCount = 0
    /\ modelSwitchedFromQuotaError = FALSE
    /\ subs = <<>>
    /\ sent = <<>>
    /\ nextCall = 0
    /\ nextBatch = 0
    /\ cancelSubmitCount = 0
    /\ keyTick = FALSE
    /\ authErrorCount = 0

\* ------------------------------------------------------ the MCP client
\* The servers of the mcpServers record, in Object.entries order.
Servers == << "a", "b" >>

\* enum MCPServerStatus
DISCONNECTED == "disconnected"
CONNECTING == "connecting"
CONNECTED == "connected"

\* A server no connectAndDiscover run was started for.  outcome is what the
\* connection attempt met, toolsResult what the tool listing met, ownPrompts
\* the prompts the server itself listed, prompts and tools what
\* discoverPrompts and discoverTools returned.
NoRun ==
    [pc |-> "idle", client |-> "none", outcome |-> "none", toolsResult |-> "none",
     ownPrompts |-> {}, prompts |-> {}, tools |-> {}]

McpInit ==
    /\ serverStatuses = <<>>
    /\ statusLog = [n \in Range(Servers) |-> <<>>]
    /\ mcpRuns = [n \in Range(Servers) |-> NoRun]
    /\ toolRegistry = {}
    /\ promptRegistry = {}
    /\ mcpDiscoveryState = "not_started"
    /\ discoveries = 0
    /\ clientErrors = 0

\* --------------------------------------------------------- hasValidTypes
\* A value that is no object (undefined, null, a string).
NoSchema == [object |-> FALSE, type |-> "", arrays |-> <<>>, properties |-> <<>>,
             items |-> <<>>]

TypesIdle ==
    /\ schema = NoSchema
    /\ valid = <<>>

\* ------------------------------------------------- createStreamGenerator
SseIdle ==
    /\ body = <<>>
    /\ readPos = 0
    /\ streamBuffer = <<>>
    /\ yielded = <<>>
    /\ generator = "idle"

RouterIdle ==
    /\ routerData = <<>>
    /\ routerResponse = <<>>
    /\ routerRequest = <<>>
    /\ routerMessages = <<>>

SpeakerIdle ==
    /\ chatHistory = <<>>
    /\ speakerPc = "idle"
    /\ generateJsonCalls = 0
    /\ jsonAnswer = <<>>
    /\ nextSpeakerResult = <<>>

NoEnv == [apiKey |-> FALSE, defaultAuthType |-> <<>>]

DialogIdle ==
    /\ selectedAuthType = <<>>
    /\ authEnv = NoEnv
    /\ errorMessage = <<>>
    /\ onSelectCalls = <<>>
    /\ escapes = 0

\* The name and the file_path argument of a tool call's request.
ToolRequest(name, file_path) == [name |-> name, file_path |-> file_path]

\* Checkpointing is off and every tool call is a read_file.
CheckpointIdle ==
    /\ checkpointConfig =
           [checkpointingEnabled |-> FALSE, projectTempDir |-> FALSE, commitHash |-> FALSE]
    /\ toolRequests = [i \in 1..MaxCalls |-> ToolRequest("read_file", << "f" >>)]
    /\ checkpoints = <<>>
    /\ effectSeen = << <<>>, <<>> >>

LoopIdle ==
    /\ loopDetectedRef = FALSE
    /\ loopPc = "idle"
    /\ loopReceived = FALSE
    /\ loopPending = FALSE
    /\ loopItems = <<>>
    /\ loopTurns = 0

FilterIdle ==
    /\ filePaths = <<>>
    /\ filterOptions = <<>>
    /\ gitRepository = FALSE
    /\ filterResult = <<>>
    /\ ignoreResults = <<>>

ExtraIdle == LoopIdle /\ FilterIdle

SideIdle == RouterIdle /\ SpeakerIdle /\ DialogIdle /\ CheckpointIdle /\ ExtraIdle

Init ==
    /\ HookInit
    /\ McpInit
    /\ TypesIdle
    /\ SseIdle
    /\ SideIdle

\* A streaming state that does not count a call that is being validated.
StreamingStateOfWithoutValidating(responding, tcs) ==
    IF \E i \in DOMAIN tcs : tcs[i].status = "awaiting_approval"
    THEN "WaitingForConfirmation"
    ELSE IF \/ responding
            \/ \E i \in DOMAIN tcs :
                  \/ tcs[i].status \in {"executing", "scheduled"}
                  \/ /\ tcs[i].status \in TerminalStatus
                     /\ ~tcs[i].responseSubmitted
         THEN "Responding"
         ELSE "Idle"

\* ------------------------------------------------------- streamingState
StreamingStateOf(responding, tcs) ==
    IF \E i \in DOMAIN tcs : tcs[i].status = "awaiting_approval"
    THEN "WaitingForConfirmation"
    ELSE IF \/ responding
            \/ \E i \in DOMAIN tcs :
                  \/ tcs[i].status \in {"executing", "scheduled", "validating"}
                  \/ /\ tcs[i].status \in TerminalStatus
                     /\ ~tcs[i].responseSubmitted
         THEN "Responding"
         ELSE "Idle"

streamingState == StreamingStateOf(isResponding, toolCalls)


\* ------------------------------------------------------------ Turn.run
Event(type, value) == [type |-> type, value |-> value]

Request(callId, client, prompt_id) ==
    [callId |-> callId, isClientInitiated |-> client, prompt_id |-> prompt_id]

\* handlePendingFunctionCall: a function call becomes a request with the id
\* the backend gave it, or a synthesized one (name-timestamp-random) when it
\* gave none, and the turn's prompt id.
HandlePendingFunctionCall(fnCallId, synthesized, prompt_id) ==
    Event("tool_call_request",
          Request(IF fnCallId # <<>> THEN fnCallId[1] ELSE synthesized,
                  FALSE, prompt_id))

\* A Turn that walks the function calls of a response from the last to the
\* first.
TurnEventsReversed(r, prompt_id, base, aborted) ==
    IF aborted THEN << Event("user_cancelled", <<>>) >>
    ELSE IF r.thought THEN << Event("thought", r.text) >>
    ELSE (IF r.text # <<>> THEN << Event("content", r.text) >> ELSE <<>>)
         \o [i \in 1..r.ncalls |->
                HandlePendingFunctionCall(r.ids[r.ncalls + 1 - i],
                                          base + r.ncalls + 1 - i, prompt_id)]
         \o (IF r.finish # "NONE" THEN << Event("finished", r.finish) >> ELSE <<>>)

\* A Turn.run that does not look at the signal when a response arrives.
TurnEventsIgnoringAbort(r, prompt_id, base, aborted) ==
    IF r.thought THEN << Event("thought", r.text) >>
    ELSE (IF r.text # <<>> THEN << Event("content", r.text) >> ELSE <<>>)
         \o [i \in 1..r.ncalls |->
                HandlePendingFunctionCall(r.ids[i], base + i, prompt_id)]
         \o (IF r.finish # "NONE" THEN << Event("finished", r.finish) >> ELSE <<>>)

\* The events one raw response yields, in the order Turn.run yields them.
\* base: the call ids synthesized or reserved so far.
TurnEvents(r, prompt_id, base, aborted) ==
    IF aborted THEN << Event("user_cancelled", <<>>) >>
    ELSE IF r.thought THEN << Event("thought", r.text) >>
    ELSE (IF r.text # <<>> THEN << Event("content", r.text) >> ELSE <<>>)
         \o [i \in 1..r.ncalls |->
                HandlePendingFunctionCall(r.ids[i], base + i, prompt_id)]
         \o (IF r.finish # "NONE" THEN << Event("finished", r.finish) >> ELSE <<>>)

\* The call ids a response consumes.
CallsOf(r, aborted) == IF aborted \/ r.thought THEN 0 ELSE r.ncalls

\* ------------------------------------------------- stream event handlers
\* The handlers act on the part of the state a stream step may change:
\* st = [history, pending, responding, buf, reqs].

\* findLastSafeSplitPoint: some index of the buffer, its length when there is
\* no safe place to split.  cut: how far before the end it splits.
FindLastSafeSplitPoint(buffer, cut) ==
    Len(buffer) - (IF cut < Len(buffer) THEN cut ELSE Len(buffer))

HandleContentEvent(st, eventValue, cut) ==
    IF turnCancelledRef THEN [st EXCEPT !.buf = <<>>]
    ELSE
      LET fresh == st.pending.type \notin {"model", "model_content"}
          h1 == IF fresh /\ st.pending # NoItem
                THEN Append(st.history, st.pending) ELSE st.history
          p1 == IF fresh THEN Item("model", <<>>) ELSE st.pending
          buffer == IF fresh THEN eventValue ELSE st.buf \o eventValue
          splitPoint == FindLastSafeSplitPoint(buffer, cut)
      IN  IF splitPoint = Len(buffer)
          THEN [st EXCEPT !.history = h1,
                          !.pending = Item(p1.type, buffer),
                          !.buf = buffer]
          ELSE [st EXCEPT
                  !.history = Append(h1, Item(p1.type, SubSeq(buffer, 1, splitPoint))),
                  !.pending = Item("model_content",
                                   SubSeq(buffer, splitPoint + 1, Len(buffer))),
                  !.buf = SubSeq(buffer, splitPoint + 1, Len(buffer))]

HandleUserCancelledEvent(st) ==
    IF turnCancelledRef THEN st
    ELSE [st EXCEPT
            !.history =
                Append(IF st.pending # NoItem
                       THEN Append(st.history, st.pending) ELSE st.history,
                       Item("info", << "User cancelled the request." >>)),
            !.pending = NoItem,
            !.responding = FALSE]

HandleErrorEvent(st) ==
    [st EXCEPT
        !.history =
            Append(IF st.pending # NoItem
                   THEN Append(st.history, st.pending) ELSE st.history,
                   ErrorItem),
        !.pending = NoItem]

HandleFinishedEvent(st, finishReason) ==
    IF finishReason \in {"STOP", "FINISH_REASON_UNSPECIFIED"} THEN st
    ELSE [st EXCEPT !.history = Append(st.history, Item("info", << finishReason >>))]

HandleEvent(st, event, cut) ==
    CASE event.type = "content" -> HandleContentEvent(st, event.value, cut)
      [] event.type = "tool_call_request" ->
            [st EXCEPT !.reqs = Append(st.reqs, event.value)]
      [] event.type = "user_cancelled" -> HandleUserCancelledEvent(st)
      [] event.type = "error" -> HandleErrorEvent(st)
      [] event.type = "finished" -> HandleFinishedEvent(st, event.value)
      [] OTHER -> st

\* The for-await loop of processcasualresearchStreamEvents over some events.
RECURSIVE ProcessEvents(_, _, _)
ProcessEvents(st, events, cut) ==
    IF events = <<>> THEN st
    ELSE ProcessEvents(HandleEvent(st, Head(events), cut), Tail(events), cut)


\* ------------------------------------------------------------ submissions
\* One submitQuery call: where it stands (pc) and its local variables.
\*   err: the error its backend request raised ("none": none so far);
\*   histStart: the length of the UI history when its Turn started.
\*   pc: "prep" awaiting prepareQueryForcasualresearch, "stream" awaiting the
\*       next stream event, "post" awaiting processcasualresearchStreamEvents'
\*       result, "done" returned.
NewSub(cont, kind, prompt_id, msg, toMark, clientCall) ==
    [pc |-> "prep", cont |-> cont, kind |-> kind, prompt_id |-> prompt_id,
     msg |-> msg, aborted |-> FALSE, buf |-> <<>>, reqs |-> <<>>,
     resps |-> <<>>, toMark |-> toMark, clientCall |-> clientCall,
     histStart |-> 0, err |-> "none"]

PromptPart(n) == [k |-> "prompt", id |-> n]

\* -------------------------------------------------------- tool scheduler
NoParts == [tag |-> "none", parts |-> <<>>]

Tracked(req, batch, signal) ==
    [callId |-> req.callId, isClientInitiated |-> req.isClientInitiated,
     prompt_id |-> req.prompt_id, status |-> "validating",
     responseSubmitted |-> FALSE, responseParts |-> NoParts,
     batch |-> batch, signal |-> signal]

\* schedule(requests, signal): each request becomes a tracked call in
\* validating state; the requests of one call are one batch.
ScheduleToolCalls(tcs, reqs, batch, signal) ==
    tcs \o [i \in 1..Len(reqs) |-> Tracked(reqs[i], batch, signal)]

\* markSubmitted(callIds)
MarkToolsAsSubmitted(tcs, callIds) ==
    [i \in 1..Len(tcs) |->
        IF tcs[i].callId \in callIds
        THEN [tcs[i] EXCEPT !.responseSubmitted = TRUE] ELSE tcs[i]]

BatchTerminal(tcs, b) ==
    \A i \in 1..Len(tcs) : tcs[i].batch = b => tcs[i].status \in TerminalStatus

\* ------------------------------------------------- handleCompletedTools
IsModelTool(t) == ~t.isClientInitiated
IsClientTool(t) == t.isClientInitiated
IsReady(t) == t.status \in TerminalStatus /\ t.responseParts # NoParts
CallIdOf(t) == t.callId
PartsOf(t) == t.responseParts.parts

\* A merge that puts each response in front of the ones before it.
MergePartListUnionsReversed(list) ==
    Flatten([i \in 1..Len(list) |-> list[Len(list) + 1 - i].parts])

\* mergePartListUnions: the parts of an array are pushed one by one, anything
\* else is pushed as it is.
MergePartListUnions(list) ==
    Flatten([i \in 1..Len(list) |-> list[i].parts])

\* The all-cancelled branch: arrays are flattened, a string becomes a text
\* part, a part is kept.
WrapString(p) == IF p.k = "string" THEN TextPart(p.id) ELSE p

CombinedParts(tools) ==
    MapSeq(WrapString, Flatten(MapSeq(PartsOf, tools)))

ResponsesToSend(tools) == [i \in 1..Len(tools) |-> tools[i].responseParts]

\* A handleCompletedTools that goes on after a quota fallback.
QuotaNeverBlocks == FALSE

\* if (modelSwitchedFromQuotaError) return;
QuotaBlocksContinuation == modelSwitchedFromQuotaError

\* The state after onComplete(batch): the tool group is added to the UI
\* history, then handleCompletedTools runs up to its first await.
\*   tcs: the tracked calls, hist: the UI history, both as the step found or
\*   made them.
HandleCompletedTools(tcs, b, hist) ==
    LET completed == SelectSeq(tcs, LAMBDA t : t.batch = b)
        ready == SelectSeq(completed, IsReady)
        clientTools == SelectSeq(ready, IsClientTool)
        tcs1 == MarkToolsAsSubmitted(tcs, Range(MapSeq(CallIdOf, clientTools)))
        modelTools == SelectSeq(ready, IsModelTool)
        callIdsToMarkAsSubmitted == MapSeq(CallIdOf, modelTools)
    IN
    /\ history' = Append(hist, Item("tool_group", << b >>))
    /\ IF isResponding
       THEN /\ toolCalls' = tcs
            /\ UNCHANGED << clientHistory, subs, abortControllerRef, turnCancelledRef >>
       ELSE IF modelTools = <<>>
       THEN /\ toolCalls' = tcs1
            /\ UNCHANGED << clientHistory, subs, abortControllerRef, turnCancelledRef >>
       ELSE IF \A i \in 1..Len(modelTools) : modelTools[i].status = "cancelled"
       THEN /\ clientHistory' =
                 Append(clientHistory,
                        [role |-> "user", parts |-> CombinedParts(modelTools)])
            /\ toolCalls' = MarkToolsAsSubmitted(tcs1, Range(callIdsToMarkAsSubmitted))
            /\ UNCHANGED << subs, abortControllerRef, turnCancelledRef >>
       ELSE IF QuotaBlocksContinuation
       THEN /\ toolCalls' = tcs1
            /\ UNCHANGED << clientHistory, subs, abortControllerRef, turnCancelledRef >>
       ELSE \* submitQuery(merged, {isContinuation: true}, prompt_ids[0]), up to
            \* its await of prepareQueryForcasualresearch
            /\ toolCalls' = tcs1
            /\ subs' = Append(subs,
                   NewSub(TRUE, "continuation", modelTools[1].prompt_id,
                          MergePartListUnions(ResponsesToSend(modelTools)),
                          callIdsToMarkAsSubmitted, 0))
            /\ abortControllerRef' = Len(subs) + 1
            /\ turnCancelledRef' = FALSE
            /\ UNCHANGED clientHistory

\* A call reaches a terminal status; the batch callback fires with the last
\* call of the batch.
Finish(i, status, shape) ==
    LET tcs == [toolCalls EXCEPT
                   ![i].status = status,
                   ![i].responseParts = ResponseParts(toolCalls[i].callId, shape)]
    IN  IF BatchTerminal(tcs, toolCalls[i].batch)
        THEN HandleCompletedTools(tcs, toolCalls[i].batch, history)
        ELSE /\ toolCalls' = tcs
             /\ UNCHANGED << history, clientHistory, subs, abortControllerRef,
                             turnCancelledRef >>

ToolValidate(i, outcome, shape) ==
    /\ i \in 1..Len(toolCalls)
    /\ toolCalls[i].status = "validating"
    /\ IF outcome = "error"
       THEN Finish(i, "error", shape)
       ELSE /\ shape = "part"
            /\ toolCalls' = [toolCalls EXCEPT ![i].status = outcome]
            /\ UNCHANGED << history, clientHistory, subs, abortControllerRef,
                            turnCancelledRef >>
    /\ UNCHANGED << coreVars, keyTick, authErrorCount, isResponding, pendingHistoryItemRef, promptCount,
                    modelSwitchedFromQuotaError, sent, nextCall, nextBatch,
                    cancelSubmitCount >>

\* confirm(callId, decision)
ToolConfirm(i, decision) ==
    /\ i \in 1..Len(toolCalls)
    /\ toolCalls[i].status = "awaiting_approval"
    /\ IF decision = "cancel"
       THEN Finish(i, "cancelled", "part")
       ELSE /\ toolCalls' = [toolCalls EXCEPT ![i].status = "scheduled"]
            /\ UNCHANGED << history, clientHistory, subs, abortControllerRef,
                            turnCancelledRef >>
    /\ UNCHANGED << coreVars, keyTick, authErrorCount, isResponding, pendingHistoryItemRef, promptCount,
                    modelSwitchedFromQuotaError, sent, nextCall, nextBatch,
                    cancelSubmitCount >>

ToolExecute(i) ==
    /\ i \in 1..Len(toolCalls)
    /\ toolCalls[i].status = "scheduled"
    /\ toolCalls' = [toolCalls EXCEPT ![i].status = "executing"]
    /\ UNCHANGED << coreVars, keyTick, authErrorCount, isResponding, turnCancelledRef, abortControllerRef,
                    pendingHistoryItemRef, history, clientHistory, promptCount,
                    modelSwitchedFromQuotaError, subs, sent, nextCall, nextBatch,
                    cancelSubmitCount >>

ToolFinish(i, status, shape) ==
    /\ i \in 1..Len(toolCalls)
    /\ toolCalls[i].status = "executing"
    /\ Finish(i, status, shape)
    /\ UNCHANGED << coreVars, keyTick, authErrorCount, isResponding, pendingHistoryItemRef, promptCount,
                    modelSwitchedFromQuotaError, sent, nextCall, nextBatch,
                    cancelSubmitCount >>

\* The signal the call was scheduled with is aborted: the call is cancelled.
ToolAbort(i) ==
    /\ i \in 1..Len(toolCalls)
    /\ toolCalls[i].status \notin TerminalStatus
    /\ subs[toolCalls[i].signal].aborted
    /\ Finish(i, "cancelled", "part")
    /\ UNCHANGED << coreVars, keyTick, authErrorCount, isResponding, pendingHistoryItemRef, promptCount,
                    modelSwitchedFromQuotaError, sent, nextCall, nextBatch,
                    cancelSubmitCount >>


\* ------------------------------------------------------------ submitQuery
UserSubs == {s \in 1..Len(subs) : ~subs[s].cont}

RECURSIVE SumResps(_)
SumResps(n) == IF n = 0 THEN 0 ELSE Len(subs[n].resps) + SumResps(n - 1)

\* The raw responses delivered so far, over all turns.
TotalResponses == SumResps(Len(subs))

\* submitQuery's guard turns a non-continuation call away.
SubmitRejected ==
    /\ streamingState \in {"Responding", "WaitingForConfirmation"}
    /\ UNCHANGED << coreVars, keyTick, authErrorCount, isResponding, toolCalls, turnCancelledRef, abortControllerRef,
                    pendingHistoryItemRef, history, clientHistory, promptCount,
                    modelSwitchedFromQuotaError, subs, sent, nextCall, nextBatch,
                    cancelSubmitCount >>

\* A submitQuery that makes the prompt id of the counter's next value.
SubmitAcceptedIdAfterIncrement(kind) ==
    /\ ~(streamingState \in {"Responding", "WaitingForConfirmation"})
    /\ modelSwitchedFromQuotaError' = FALSE
    /\ abortControllerRef' = Len(subs) + 1
    /\ turnCancelledRef' = FALSE
    /\ subs' = Append(subs,
          [NewSub(FALSE, kind, promptCount + 1, << PromptPart(Len(subs) + 1) >>, <<>>,
                  IF kind = "tool" THEN nextCall + 1 ELSE 0)
             EXCEPT !.pc = IF kind = "empty" THEN "done" ELSE "prep"])
    /\ nextCall' = IF kind = "tool" THEN nextCall + 1 ELSE nextCall
    /\ UNCHANGED << coreVars, keyTick, authErrorCount, isResponding, toolCalls, pendingHistoryItemRef, history,
                    clientHistory, promptCount, sent, nextBatch, cancelSubmitCount >>

\* submitQuery(query) of the user, up to the first await of
\* prepareQueryForcasualresearch.  kind: what the pre-processing will make of
\* the query.  An empty query returns at once.
SubmitAccepted(kind) ==
    /\ ~(streamingState \in {"Responding", "WaitingForConfirmation"})
    /\ modelSwitchedFromQuotaError' = FALSE
    /\ abortControllerRef' = Len(subs) + 1
    /\ turnCancelledRef' = FALSE
    /\ subs' = Append(subs,
          [NewSub(FALSE, kind, promptCount, << PromptPart(Len(subs) + 1) >>, <<>>,
                  IF kind = "tool" THEN nextCall + 1 ELSE 0)
             EXCEPT !.pc = IF kind = "empty" THEN "done" ELSE "prep"])
    /\ nextCall' = IF kind = "tool" THEN nextCall + 1 ELSE nextCall
    /\ UNCHANGED << coreVars, keyTick, authErrorCount, isResponding, toolCalls, pendingHistoryItemRef, history,
                    clientHistory, promptCount, sent, nextBatch, cancelSubmitCount >>

\* startNewPrompt()
StartNewPrompt(count) == count + 1

\* A submitQuery that starts a new prompt for a continuation too.
NextPromptCountAlways(sub, count) == StartNewPrompt(count)

\* if (!options?.isContinuation) startNewPrompt()
NextPromptCount(sub, count) ==
    IF sub.cont THEN count ELSE StartNewPrompt(count)

\* prepareQueryForcasualresearch returns; submitQuery goes on to
\* sendMessageStream, or returns when there is nothing to send.
PrepDone(s) ==
    /\ s \in 1..Len(subs)
    /\ subs[s].pc = "prep"
    /\ LET kind == subs[s].kind
           proceed == kind \in {"text", "submit", "continuation"}
           hist1 == IF kind = "text"
                    THEN Append(history, Item("user", << s >>)) ELSE history
       IN
       /\ history' = hist1
       /\ IF proceed
          THEN /\ promptCount' = NextPromptCount(subs[s], promptCount)
               /\ isResponding' = TRUE
               /\ sent' = Append(sent, [msg |-> subs[s].msg,
                                        prompt_id |-> subs[s].prompt_id,
                                        cont |-> subs[s].cont, sub |-> s])
               /\ subs' = [subs EXCEPT ![s].pc = "stream",
                                       ![s].histStart = Len(hist1)]
               /\ UNCHANGED << toolCalls, nextBatch >>
          ELSE /\ subs' = [subs EXCEPT ![s].pc = "done"]
               /\ IF kind = "tool"
                  THEN /\ toolCalls' =
                            ScheduleToolCalls(toolCalls,
                                << Request(subs[s].clientCall, TRUE, subs[s].prompt_id) >>,
                                nextBatch + 1, s)
                       /\ nextBatch' = nextBatch + 1
                  ELSE UNCHANGED << toolCalls, nextBatch >>
               /\ UNCHANGED << promptCount, isResponding, sent >>
    /\ UNCHANGED << coreVars, keyTick, authErrorCount, turnCancelledRef, abortControllerRef, pendingHistoryItemRef,
                    clientHistory, modelSwitchedFromQuotaError, nextCall,
                    cancelSubmitCount >>

\* The end of the for-await loop: the accumulated requests go to the
\* scheduler as one batch, and processcasualresearchStreamEvents returns.
AfterLoop(s, st) ==
    /\ history' = st.history
    /\ pendingHistoryItemRef' = st.pending
    /\ isResponding' = st.responding
    /\ IF st.reqs # <<>>
       THEN /\ toolCalls' = ScheduleToolCalls(toolCalls, st.reqs, nextBatch + 1, s)
            /\ nextBatch' = nextBatch + 1
       ELSE UNCHANGED << toolCalls, nextBatch >>

StreamState(s) ==
    [history |-> history, pending |-> pendingHistoryItemRef,
     responding |-> isResponding, buf |-> subs[s].buf, reqs |-> subs[s].reqs]

HasContent(events) == \E i \in 1..Len(events) : events[i].type = "content"

\* The backend delivers one raw response: Turn.run yields its events and the
\* orchestrator handles them.  A Turn whose signal is aborted yields
\* UserCancelled and returns, which ends the loop.
TurnResponse(s, r, cut) ==
    /\ s \in 1..Len(subs)
    /\ subs[s].pc = "stream"
    /\ LET events == TurnEvents(r, subs[s].prompt_id, nextCall, subs[s].aborted)
           st == ProcessEvents(StreamState(s), events, cut)
       IN
       /\ cut > 0 => HasContent(events) /\ ~turnCancelledRef
       /\ nextCall' = nextCall + CallsOf(r, subs[s].aborted)
       /\ IF subs[s].aborted
          THEN /\ AfterLoop(s, st)
               /\ subs' = [subs EXCEPT ![s].pc = "post", ![s].buf = st.buf,
                                       ![s].reqs = st.reqs]
          ELSE /\ history' = st.history
               /\ pendingHistoryItemRef' = st.pending
               /\ isResponding' = st.responding
               /\ subs' = [subs EXCEPT ![s].buf = st.buf, ![s].reqs = st.reqs,
                                       ![s].resps = Append(subs[s].resps, r)]
               /\ UNCHANGED << toolCalls, nextBatch >>
    /\ UNCHANGED << coreVars, keyTick, authErrorCount, turnCancelledRef, abortControllerRef, clientHistory, promptCount,
                    modelSwitchedFromQuotaError, sent, cancelSubmitCount >>

FunctionCallPart(req) == [k |-> "functionCall", id |-> req.callId]

\* The backend stream ends: the chat records the exchange, the loop ends.
StreamEnd(s) ==
    /\ s \in 1..Len(subs)
    /\ subs[s].pc = "stream"
    /\ clientHistory' = clientHistory \o
          << [role |-> "user", parts |-> subs[s].msg],
             [role |-> "model", parts |-> MapSeq(FunctionCallPart, subs[s].reqs)] >>
    /\ AfterLoop(s, StreamState(s))
    /\ subs' = [subs EXCEPT ![s].pc = "post"]
    /\ UNCHANGED << coreVars, keyTick, authErrorCount, turnCancelledRef, abortControllerRef, promptCount,
                    modelSwitchedFromQuotaError, sent, nextCall, cancelSubmitCount >>

\* submitQuery returns; a continuation's caller, handleCompletedTools, then
\* marks its calls as submitted.
Returned(s, err) ==
    /\ subs' = [subs EXCEPT ![s].pc = "done", ![s].err = err]
    /\ toolCalls' = IF subs[s].cont
                    THEN MarkToolsAsSubmitted(toolCalls, Range(subs[s].toMark))
                    ELSE toolCalls

\* A submitQuery that reports an auth error as an error item too.
TurnThrowReportsAuth(s, err) ==
    /\ s \in 1..Len(subs)
    /\ subs[s].pc = "stream"
    /\ IF err \in {"unauthorized", "client", "abort"}
       THEN /\ authErrorCount' = IF err = "unauthorized" THEN authErrorCount + 1
                                 ELSE authErrorCount
            /\ history' = IF err \in {"unauthorized", "client"}
                          THEN Append(history, ErrorItem) ELSE history
            /\ isResponding' = FALSE
            /\ Returned(s, err)
            /\ UNCHANGED << pendingHistoryItemRef, nextBatch >>
       ELSE /\ AfterLoop(s, ProcessEvents(StreamState(s),
                   << Event(IF subs[s].aborted THEN "user_cancelled" ELSE "error",
                            <<>>) >>, 0))
            /\ subs' = [subs EXCEPT ![s].pc = "post", ![s].err = err]
            /\ UNCHANGED authErrorCount
    /\ UNCHANGED << coreVars, keyTick, turnCancelledRef, abortControllerRef, clientHistory,
                    promptCount, modelSwitchedFromQuotaError, sent, nextCall,
                    cancelSubmitCount >>

\* The backend request raises.
\*   "unauthorized": Turn.run re-raises the auth error; submitQuery's catch
\*       calls onAuthError.
\*   "other": Turn.run turns the error into UserCancelled (signal aborted) or
\*       Error, and returns.
\*   "client", "abort": an error, or an AbortError, raised outside Turn.run's
\*       try reaches submitQuery's catch, which adds an error item for the
\*       first and nothing for the second.
\* In each case the finally block clears isResponding.
TurnThrow(s, err) ==
    /\ s \in 1..Len(subs)
    /\ subs[s].pc = "stream"
    /\ IF err \in {"unauthorized", "client", "abort"}
       THEN /\ authErrorCount' = IF err = "unauthorized" THEN authErrorCount + 1
                                 ELSE authErrorCount
            /\ history' = IF err = "client"
                          THEN Append(history, ErrorItem) ELSE history
            /\ isResponding' = FALSE
            /\ Returned(s, err)
            /\ UNCHANGED << pendingHistoryItemRef, nextBatch >>
       ELSE /\ AfterLoop(s, ProcessEvents(StreamState(s),
                   << Event(IF subs[s].aborted THEN "user_cancelled" ELSE "error",
                            <<>>) >>, 0))
            /\ subs' = [subs EXCEPT ![s].pc = "post", ![s].err = err]
            /\ UNCHANGED authErrorCount
    /\ UNCHANGED << coreVars, keyTick, turnCancelledRef, abortControllerRef, clientHistory,
                    promptCount, modelSwitchedFromQuotaError, sent, nextCall,
                    cancelSubmitCount >>

\* submitQuery after the stream: the pending item is flushed, isResponding
\* cleared (finally).
Post(s) ==
    /\ s \in 1..Len(subs)
    /\ subs[s].pc = "post"
    /\ history' = IF pendingHistoryItemRef # NoItem
                  THEN Append(history, pendingHistoryItemRef) ELSE history
    /\ pendingHistoryItemRef' = NoItem
    /\ isResponding' = FALSE
    /\ Returned(s, subs[s].err)
    /\ UNCHANGED << coreVars, keyTick, authErrorCount, turnCancelledRef, abortControllerRef, clientHistory, promptCount,
                    modelSwitchedFromQuotaError, sent, nextCall, nextBatch,
                    cancelSubmitCount >>

\* ------------------------------------------------------------ the cancel key
\* An escape handler that drops the pending item instead of flushing it.
EscapeAcceptedDropsPending ==
    /\ streamingState = "Responding"
    /\ ~turnCancelledRef
    /\ turnCancelledRef' = TRUE
    /\ subs' = IF abortControllerRef = 0 THEN subs
               ELSE [subs EXCEPT ![abortControllerRef].aborted = TRUE]
    /\ history' = Append(history, Item("info", << "Request cancelled." >>))
    /\ pendingHistoryItemRef' = NoItem
    /\ cancelSubmitCount' = cancelSubmitCount + 1
    /\ isResponding' = FALSE
    /\ keyTick' = ~keyTick
    /\ UNCHANGED << coreVars, toolCalls, abortControllerRef, clientHistory, promptCount,
                    modelSwitchedFromQuotaError, sent, nextCall, nextBatch,
                    authErrorCount >>

\* An escape handler without the turnCancelledRef test.
EscapeAcceptedAgain ==
    /\ streamingState = "Responding"
    /\ turnCancelledRef' = TRUE
    /\ subs' = IF abortControllerRef = 0 THEN subs
               ELSE [subs EXCEPT ![abortControllerRef].aborted = TRUE]
    /\ history' = Append(IF pendingHistoryItemRef # NoItem
                         THEN Append(history, pendingHistoryItemRef) ELSE history,
                         Item("info", << "Request cancelled." >>))
    /\ pendingHistoryItemRef' = NoItem
    /\ cancelSubmitCount' = cancelSubmitCount + 1
    /\ isResponding' = FALSE
    /\ keyTick' = ~keyTick
    /\ UNCHANGED << coreVars, toolCalls, abortControllerRef, clientHistory, promptCount,
                    modelSwitchedFromQuotaError, sent, nextCall, nextBatch,
                    authErrorCount >>

\* useInput: escape in state Responding, the turn not yet cancelled.
EscapeAccepted ==
    /\ streamingState = "Responding"
    /\ ~turnCancelledRef
    /\ turnCancelledRef' = TRUE
    /\ subs' = IF abortControllerRef = 0 THEN subs
               ELSE [subs EXCEPT ![abortControllerRef].aborted = TRUE]
    /\ history' = Append(IF pendingHistoryItemRef # NoItem
                         THEN Append(history, pendingHistoryItemRef) ELSE history,
                         Item("info", << "Request cancelled." >>))
    /\ pendingHistoryItemRef' = NoItem
    /\ cancelSubmitCount' = cancelSubmitCount + 1
    /\ isResponding' = FALSE
    /\ keyTick' = ~keyTick
    /\ UNCHANGED << coreVars, toolCalls, abortControllerRef, clientHistory, promptCount,
                    modelSwitchedFromQuotaError, sent, nextCall, nextBatch,
                    authErrorCount >>

\* useInput: escape in any other state returns at once.
EscapeIgnored ==
    /\ ~(streamingState = "Responding" /\ ~turnCancelledRef)
    /\ keyTick' = ~keyTick
    /\ UNCHANGED << coreVars, isResponding, toolCalls, turnCancelledRef, abortControllerRef,
                    pendingHistoryItemRef, history, clientHistory, promptCount,
                    modelSwitchedFromQuotaError, subs, sent, nextCall, nextBatch,
                    cancelSubmitCount, authErrorCount >>

\* The quota fallback handler switches the model during a backend request.
QuotaFallback ==
    /\ \E s \in 1..Len(subs) : subs[s].pc = "stream"
    /\ ~modelSwitchedFromQuotaError
    /\ modelSwitchedFromQuotaError' = TRUE
    /\ UNCHANGED << coreVars, keyTick, authErrorCount, isResponding, toolCalls, turnCancelledRef, abortControllerRef,
                    pendingHistoryItemRef, history, clientHistory, promptCount,
                    subs, sent, nextCall, nextBatch, cancelSubmitCount >>

\* --------------------------------------------------------- hasValidTypes
\* A schema object: type is "" when the node has no type, arrays holds the
\* lists of the anyOf, allOf and oneOf keywords the node has, in that order,
\* properties the values of its properties, items its items schema if any.
Node(type, arrays, properties, items) ==
    [object |-> TRUE, type |-> type, arrays |-> arrays,
     properties |-> properties, items |-> items]

SchemaTypes == {"", "string", "object", "array"}

\* The schemas nested at most d deep: a node with no child, with an empty
\* keyword list, or with one child below a keyword, a property or items.
RECURSIVE SchemasOf(_)
SchemasOf(d) ==
    LET leaves == {Node(t, a, <<>>, <<>>) :
                       t \in SchemaTypes, a \in {<<>>, << <<>> >>}}
    IN  IF d = 0 THEN leaves
        ELSE LET sub == SchemasOf(d - 1)
             IN  leaves
                 \cup {Node(t, << << c >> >>, <<>>, <<>>) : t \in SchemaTypes, c \in sub}
                 \cup {Node(t, <<>>, << c >>, <<>>) : t \in SchemaTypes, c \in sub}
                 \cup {Node(t, <<>>, <<>>, << c >>) : t \in SchemaTypes, c \in sub}

Schemas == SchemasOf(MaxDepth) \cup {NoSchema}

\* hasValidTypes: a value that is no object is valid; a node without a type
\* needs one of the keywords to hold an array, whose members are all valid;
\* the properties of an "object" node and the items of an "array" node are
\* valid.
RECURSIVE HasValidTypes(_)
HasValidTypes(s) ==
    IF ~s.object THEN TRUE
    ELSE /\ \/ s.type # ""
            \/ /\ \A k \in DOMAIN s.arrays : \A i \in DOMAIN s.arrays[k] :
                      HasValidTypes(s.arrays[k][i])
               /\ s.arrays # <<>>
         /\ s.type = "object" =>
                \A i \in DOMAIN s.properties : HasValidTypes(s.properties[i])
         /\ (s.type = "array" /\ s.items # <<>>) => HasValidTypes(s.items[1])

\* One call of hasValidTypes.
ValidateSchema ==
    /\ valid = <<>>
    /\ valid' = << HasValidTypes(schema) >>
    /\ UNCHANGED << hookVars, sideVars, mcpVars, sseVars, schema >>

\* ------------------------------------------------------ the MCP client
\* updateMCPServerStatus: the map entry is set, the listeners are notified.
SetStatus(statuses, name, status) ==
    [n \in DOMAIN statuses \cup {name} |-> IF n = name THEN status ELSE statuses[n]]

Notify(log, name, status) == [log EXCEPT ![name] = Append(@, status)]

UpdateMCPServerStatus(name, status) ==
    /\ serverStatuses' = SetStatus(serverStatuses, name, status)
    /\ statusLog' = Notify(statusLog, name, status)

\* getMCPServerStatus on a status map: a server without an entry is
\* DISCONNECTED.
StatusIn(statuses, n) ==
    IF n \in DOMAIN statuses THEN statuses[n] ELSE DISCONNECTED

\* The function declarations a server lists: the tool's name and its
\* parameter schema.
FunctionDeclaration(name, parametersJsonSchema) ==
    [name |-> name, parametersJsonSchema |-> parametersJsonSchema]

DeclarationLists ==
    { <<>>,
      << FunctionDeclaration("t1", Node("object", <<>>, <<>>, <<>>)) >>,
      << FunctionDeclaration("t1", Node("", <<>>, <<>>, <<>>)) >>,
      << FunctionDeclaration("t1", NoSchema),
         FunctionDeclaration("t2", Node("object", <<>>, << Node("", <<>>, <<>>, <<>>) >>, <<>>)) >> }

PromptLists == { {}, {"p"} }

\* discoverMcpTools up to its await: connectAndDiscover is called for each
\* server of the record in turn, and each call sets CONNECTING before its
\* first await.
RECURSIVE StartRuns(_, _, _)
StartRuns(names, statuses, log) ==
    IF names = <<>> THEN << statuses, log >>
    ELSE StartRuns(Tail(names),
                   SetStatus(statuses, Head(names), CONNECTING),
                   [log EXCEPT ![Head(names)] = << CONNECTING >>])

DiscoverMcpTools(names) ==
    /\ names # <<>>
    /\ mcpDiscoveryState' = "in_progress"
    /\ discoveries' = discoveries + 1
    /\ LET started == StartRuns(names, serverStatuses, statusLog)
       IN  /\ serverStatuses' = started[1]
           /\ statusLog' = started[2]
    /\ mcpRuns' = [n \in DOMAIN mcpRuns |->
                      IF n \in Range(names)
                      THEN [NoRun EXCEPT !.pc = "connect",
                                         !.client = mcpRuns[n].client]
                      ELSE mcpRuns[n]]
    /\ UNCHANGED << hookVars, sideVars, typeVars, sseVars, toolRegistry, promptRegistry,
                    clientErrors >>

\* A connectAndDiscover that returns after a failed connection without
\* setting a status.
ConnectToMcpServerSilent(n, outcome) ==
    /\ mcpRuns[n].pc = "connect"
    /\ mcpRuns' = [mcpRuns EXCEPT
            ![n].pc = IF outcome = "connected" THEN "prompts" ELSE "done",
            ![n].client = IF outcome = "connected" THEN "open" ELSE @,
            ![n].outcome = outcome]
    /\ UNCHANGED << hookVars, sideVars, typeVars, sseVars, serverStatuses, statusLog,
                    toolRegistry, promptRegistry, mcpDiscoveryState, discoveries,
                    clientErrors >>

\* connectAndDiscover after connectToMcpServer: createTransport returned
\* null ("no_transport") or client.connect raised ("refused", or
\* "unauthorized" for a 401/403 answer) and connectToMcpServer returned
\* undefined, or the client is connected and the error callback installed.
ConnectToMcpServer(n, outcome) ==
    /\ mcpRuns[n].pc = "connect"
    /\ IF outcome = "connected"
       THEN /\ mcpRuns' = [mcpRuns EXCEPT ![n].pc = "prompts",
                                          ![n].client = "open",
                                          ![n].outcome = outcome]
            /\ UNCHANGED << serverStatuses, statusLog >>
       ELSE /\ UpdateMCPServerStatus(n, DISCONNECTED)
            /\ mcpRuns' = [mcpRuns EXCEPT ![n].pc = "done",
                                          ![n].outcome = outcome]
    /\ UNCHANGED << hookVars, sideVars, typeVars, sseVars, toolRegistry, promptRegistry,
                    mcpDiscoveryState, discoveries, clientErrors >>

\* discoverPrompts: no request without the prompts capability
\* ("unsupported"); a request that raises gives no prompt ("error"); the
\* prompts listed are registered and every prompt of the registry returned.
DiscoverPrompts(n, result, own) ==
    /\ mcpRuns[n].pc = "prompts"
    /\ result = "listed" \/ own = {}
    /\ LET registered == IF result = "listed"
                         THEN promptRegistry \cup {<< n, q >> : q \in own}
                         ELSE promptRegistry
       IN  /\ promptRegistry' = registered
           /\ mcpRuns' = [mcpRuns EXCEPT
                   ![n].pc = "tools",
                   ![n].ownPrompts = own,
                   ![n].prompts = IF result = "listed" THEN registered ELSE {}]
    /\ UNCHANGED << hookVars, sideVars, typeVars, sseVars, serverStatuses, statusLog,
                    toolRegistry, mcpDiscoveryState, discoveries, clientErrors >>

\* discoverTools keeps the declarations whose parameter schema passes
\* hasValidTypes.
DiscoveredTools(decls) ==
    {decls[i].name : i \in {j \in DOMAIN decls : HasValidTypes(decls[j].parametersJsonSchema)}}

\* discoverTools and the rest of connectAndDiscover: a request that raises
\* ("error") and a server without function declarations ("not_array") give
\* no tool.  With neither prompts nor tools the run raises, closes the client
\* and sets DISCONNECTED; otherwise it sets CONNECTED and registers the tools.
DiscoverTools(n, result, decls) ==
    /\ mcpRuns[n].pc = "tools"
    /\ result = "listed" \/ decls = <<>>
    /\ LET tools == IF result = "listed" THEN DiscoveredTools(decls) ELSE {}
           failed == mcpRuns[n].prompts = {} /\ tools = {}
       IN  /\ mcpRuns' = [mcpRuns EXCEPT
                   ![n].pc = "done",
                   ![n].toolsResult = result,
                   ![n].tools = tools,
                   ![n].client = IF failed THEN "closed" ELSE @]
           /\ UpdateMCPServerStatus(n, IF failed THEN DISCONNECTED ELSE CONNECTED)
           /\ toolRegistry' = IF failed THEN toolRegistry
                              ELSE toolRegistry \cup {<< n, tl >> : tl \in tools}
    /\ UNCHANGED << hookVars, sideVars, typeVars, sseVars, promptRegistry,
                    mcpDiscoveryState, discoveries, clientErrors >>

\* mcpClient.onerror: an error of an open client sets DISCONNECTED.
ClientError(n) ==
    /\ mcpRuns[n].client = "open"
    /\ UpdateMCPServerStatus(n, DISCONNECTED)
    /\ clientErrors' = clientErrors + 1
    /\ UNCHANGED << hookVars, sideVars, typeVars, sseVars, mcpRuns, toolRegistry,
                    promptRegistry, mcpDiscoveryState, discoveries >>

\* A discoverMcpTools whose failure leaves the state as it was on entry.
DiscoverMcpToolsRaisesNoFinally ==
    /\ mcpDiscoveryState' = "in_progress"
    /\ discoveries' = discoveries + 1
    /\ UNCHANGED << hookVars, sideVars, typeVars, sseVars, serverStatuses, statusLog, mcpRuns,
                    toolRegistry, promptRegistry, clientErrors >>

\* discoverMcpTools with an mcpServerCommand that does not parse: the state
\* is set IN_PROGRESS, populateMcpServerCommand raises before any server is
\* started, and the finally block sets COMPLETED, all before the first await.
DiscoverMcpToolsRaises ==
    /\ mcpDiscoveryState' = "completed"
    /\ discoveries' = discoveries + 1
    /\ UNCHANGED << hookVars, sideVars, typeVars, sseVars, serverStatuses, statusLog, mcpRuns,
                    toolRegistry, promptRegistry, clientErrors >>

\* A discoverMcpTools call over the one server n returns: its Promise.all
\* has resolved with the run of n, whatever other calls are still running.
DiscoveryOfServerCompleted(n) ==
    /\ mcpRuns[n].pc = "done"
    /\ mcpRuns' = [mcpRuns EXCEPT ![n].pc = "returned"]
    /\ mcpDiscoveryState' = "completed"
    /\ UNCHANGED << hookVars, sideVars, typeVars, sseVars, serverStatuses, statusLog,
                    toolRegistry, promptRegistry, discoveries, clientErrors >>

\* discoverMcpTools after Promise.all: every run has returned.
DiscoveryCompleted ==
    /\ mcpDiscoveryState = "in_progress"
    /\ \A n \in DOMAIN mcpRuns : mcpRuns[n].pc \in {"idle", "done"}
    /\ mcpDiscoveryState' = "completed"
    /\ UNCHANGED << hookVars, sideVars, typeVars, sseVars, serverStatuses, statusLog, mcpRuns,
                    toolRegistry, promptRegistry, discoveries, clientErrors >>


\* ------------------------------------------------- createStreamGenerator
\* The response body is text, cut into chunks by the transport.  Text is a
\* sequence of tokens: "\n", the prefix "data: ", and payloads: "c1" and "c2"
\* are JSON objects whose delta has content, "e" is a JSON object whose delta
\* has neither content nor tool calls, "x" is text that is no JSON,
\* "[DONE]" the sentinel, ":" the text of a comment line.
DataPrefix == "data: "

FrameOf(payload) == << DataPrefix, payload, "\n" >>

\* The chunks a read may return: whole lines, and lines cut in two.
ChunkShapes ==
    { FrameOf("c1"), FrameOf("c2"), FrameOf("e"), FrameOf("x"), FrameOf("[DONE]"),
      << ":", "\n" >>, << DataPrefix, "c1" >>, << "\n" >>,
      << DataPrefix >>, << "c2", "\n" >> }

RECURSIVE BodiesOf(_)
BodiesOf(n) ==
    IF n = 0 THEN { <<>> }
    ELSE LET shorter == BodiesOf(n - 1)
         IN  shorter \cup {Append(b, c) : b \in {s \in shorter : Len(s) = n - 1},
                                          c \in ChunkShapes}

Bodies == BodiesOf(MaxChunks)

\* text.split('\n'): the pieces between the newlines, the last one included.
RECURSIVE SplitLines(_, _, _)
SplitLines(text, piece, pieces) ==
    IF text = <<>> THEN Append(pieces, piece)
    ELSE IF Head(text) = "\n"
         THEN SplitLines(Tail(text), <<>>, Append(pieces, piece))
         ELSE SplitLines(Tail(text), Append(piece, Head(text)), pieces)

\* JSON.parse accepts the text.
JsonParses(jsonStr) ==
    Len(jsonStr) = 1 /\ jsonStr[1] \in {"c1", "c2", "e"}

\* JSON.parse, then convertFromOpenRouterFormat(data, true): the response of
\* a delta with content, nothing (null) for another delta, nothing for text
\* that does not parse.
ConvertFromOpenRouterFormat(jsonStr) ==
    IF JsonParses(jsonStr) /\ jsonStr[1] \in {"c1", "c2"}
    THEN << jsonStr[1] >> ELSE <<>>

\* A loop over the lines that reads on past the sentinel.
RECURSIVE ProcessLinesPastDone(_, _)
ProcessLinesPastDone(lines, out) ==
    IF lines = <<>> THEN [yielded |-> out, returned |-> FALSE]
    ELSE LET line == Head(lines)
         IN  IF line # <<>> /\ Head(line) = DataPrefix
             THEN ProcessLinesPastDone(Tail(lines),
                                       out \o ConvertFromOpenRouterFormat(Tail(line)))
             ELSE ProcessLinesPastDone(Tail(lines), out)

\* The for loop over the lines: what is yielded, and whether the generator
\* returned at the sentinel.
RECURSIVE ProcessLines(_, _)
ProcessLines(lines, out) ==
    IF lines = <<>> THEN [yielded |-> out, returned |-> FALSE]
    ELSE LET line == Head(lines)
         IN  IF line # <<>> /\ Head(line) = DataPrefix
             THEN IF Tail(line) = << "[DONE]" >>
                  THEN [yielded |-> out, returned |-> TRUE]
                  ELSE ProcessLines(Tail(lines),
                                    out \o ConvertFromOpenRouterFormat(Tail(line)))
             ELSE ProcessLines(Tail(lines), out)

\* A read that splits the chunk alone and forgets what the buffer held.
ReadChunkWithoutBuffer ==
    /\ generator = "reading"
    /\ readPos < Len(body)
    /\ LET pieces == SplitLines(body[readPos + 1], <<>>, <<>>)
           lines == SubSeq(pieces, 1, Len(pieces) - 1)
           done == ProcessLines(lines, <<>>)
       IN  /\ streamBuffer' = pieces[Len(pieces)]
           /\ yielded' = yielded \o done.yielded
           /\ generator' = IF done.returned THEN "done" ELSE "reading"
    /\ readPos' = readPos + 1
    /\ UNCHANGED << hookVars, sideVars, mcpVars, typeVars, body >>

\* reader.read() returns a chunk: the buffer and the chunk are split into
\* lines, the last piece stays in the buffer, the lines are processed.
ReadChunk ==
    /\ generator = "reading"
    /\ readPos < Len(body)
    /\ LET pieces == SplitLines(streamBuffer \o body[readPos + 1], <<>>, <<>>)
           lines == SubSeq(pieces, 1, Len(pieces) - 1)
           done == ProcessLines(lines, <<>>)
       IN  /\ streamBuffer' = pieces[Len(pieces)]
           /\ yielded' = yielded \o done.yielded
           /\ generator' = IF done.returned THEN "done" ELSE "reading"
    /\ readPos' = readPos + 1
    /\ UNCHANGED << hookVars, sideVars, mcpVars, typeVars, body >>

\* reader.read() reports the end of the body: the loop is left.
ReadDone ==
    /\ generator = "reading"
    /\ readPos = Len(body)
    /\ generator' = "done"
    /\ UNCHANGED << hookVars, sideVars, mcpVars, typeVars, body, readPos, streamBuffer, yielded >>

\* ------------------------------------------------- the router's conversions
\* The parts of a response or of a request content.
RouterFunctionCallPart(name, args) ==
    [kind |-> "functionCall", name |-> name, args |-> args, text |-> ""]

RouterTextPart(text) == [kind |-> "text", name |-> "", args |-> {}, text |-> text]

RouterFunctionResponsePart(name) ==
    [kind |-> "functionResponse", name |-> name, args |-> {}, text |-> ""]

\* JSON.parse of an arguments string; an object is the set of its keys.
JsonParse(str) == IF str = "{\"a\":1}" THEN {"a"} ELSE {}

\* toolCall.function?.arguments || '{}', parsed: a missing and an empty
\* arguments string give the empty object.
ParsedArguments(toolCall) ==
    JsonParse(IF toolCall.arguments = <<>> \/ toolCall.arguments[1] = ""
              THEN "{}" ELSE toolCall.arguments[1])

\* The tool calls a router message or delta can carry.
ToolCalls ==
    [name : {"f"}, arguments : {<<>>, << "{}" >>, << "{\"a\":1}" >>}]

ToolCallLists ==
    UNION {[1..n -> ToolCalls] : n \in 0..MaxToolCalls}

\* choices[0].message of a completion, or choices[0].delta of a streamed
\* frame: tool_calls and content may each be missing.
RouterDatas ==
    [isStreaming : BOOLEAN,
     tool_calls : {<<>>} \cup {<< l >> : l \in ToolCallLists},
     content : {<<>>, << "" >>, << "hi" >>}]

GenerateContentResponse(parts, functionCalls, text) ==
    [parts |-> parts, functionCalls |-> functionCalls, text |-> text]

\* convertFromOpenRouterFormat: <<>> is null.
ConvertFromOpenRouterData(data, isStreaming) ==
    LET callParts(l) ==
            [i \in 1..Len(l) |-> RouterFunctionCallPart(l[i].name, ParsedArguments(l[i]))]
        content == IF data.content = <<>> THEN "" ELSE data.content[1]
    IN  IF isStreaming
        THEN IF data.tool_calls # <<>>
             THEN << GenerateContentResponse(callParts(data.tool_calls[1]),
                                             callParts(data.tool_calls[1]), "") >>
             ELSE IF content # ""
             THEN << GenerateContentResponse(<< RouterTextPart(content) >>, <<>>, content) >>
             ELSE <<>>
        ELSE LET calls == IF data.tool_calls # <<>>
                          THEN callParts(data.tool_calls[1]) ELSE <<>>
                 parts == calls \o (IF content # "" THEN << RouterTextPart(content) >> ELSE <<>>)
             IN  << GenerateContentResponse(
                        IF parts = <<>> THEN << RouterTextPart(content) >> ELSE parts,
                        calls, content) >>

\* The contents of a request: a user turn of text, a user turn that answers
\* a function call, a model turn of text, of a function call, or of both.
Contents ==
    {[role |-> "user", parts |-> << RouterTextPart("a") >>],
     [role |-> "user", parts |-> << RouterTextPart("a"), RouterTextPart("b") >>],
     [role |-> "user", parts |-> << RouterFunctionResponsePart("f") >>],
     [role |-> "model", parts |-> << RouterTextPart("a") >>],
     [role |-> "model", parts |-> << RouterFunctionCallPart("f", {}) >>],
     [role |-> "model", parts |-> << RouterTextPart("a"), RouterFunctionCallPart("f", {}) >>]}

\* request.config.systemInstruction, as a string, and request.contents, of
\* at least one content.
Requests ==
    [systemInstruction : {<<>>, << "" >>, << "sys" >>},
     contents : UNION {[1..n -> Contents] : n \in 1..MaxContents}]

Message(role, content) == [role |-> role, content |-> content]

\* parts.filter(part => part.text).map(part => part.text).join('\n')
RECURSIVE TextOfParts(_)
TextOfParts(parts) ==
    IF parts = <<>> THEN ""
    ELSE LET rest == TextOfParts(Tail(parts))
         IN  IF Head(parts).text = "" THEN rest
             ELSE IF rest = "" THEN Head(parts).text
             ELSE Head(parts).text \o "\n" \o rest

\* The loop over request.contents.
RECURSIVE MessagesOf(_)
MessagesOf(contents) ==
    IF contents = <<>> THEN <<>>
    ELSE LET content == Head(contents)
             textParts == TextOfParts(content.parts)
         IN  (IF content.role \in {"user", "model"} /\ textParts # ""
              THEN << Message(IF content.role = "user" THEN "user" ELSE "assistant",
                              textParts) >>
              ELSE <<>>)
             \o MessagesOf(Tail(contents))

\* convertToOpenRouterFormat
ConvertToOpenRouterFormat(request) ==
    LET system == IF request.systemInstruction # <<>> /\ request.systemInstruction[1] # ""
                  THEN << Message("system", request.systemInstruction[1]) >>
                  ELSE <<>>
        messages == system \o MessagesOf(request.contents)
    IN  IF messages = <<>> THEN << Message("user", "Hello") >> ELSE messages

\* One call of convertFromOpenRouterFormat.
ConvertResponse ==
    /\ routerData # <<>>
    /\ routerResponse = <<>>
    /\ routerResponse' =
           << ConvertFromOpenRouterData(routerData[1], routerData[1].isStreaming) >>
    /\ UNCHANGED << hookVars, mcpVars, typeVars, sseVars, speakerVars, dialogVars, checkpointVars, extraVars,
                    routerData, routerRequest, routerMessages >>

\* A streamed frame: choices[0].delta and choices[0].finish_reason (<<>>:
\* null or missing).
Frames ==
    [delta : {d \in RouterDatas : d.isStreaming},
     finish_reason : {<<>>, << "stop" >>, << "tool_calls" >>}]

\* convertFromOpenRouterFormat(data, true) with the candidate's finishReason,
\* finish_reason || undefined: <<>> is null, no response.
ConvertFromOpenRouterFrame(frame) ==
    LET converted == ConvertFromOpenRouterData(frame.delta, TRUE)
    IN  IF converted = <<>> THEN <<>>
        ELSE << [response |-> converted[1], finishReason |-> frame.finish_reason] >>

\* The events Turn.run yields for what the generator made of one frame:
\* nothing when no response was yielded.
RouterTurnEvents(converted) ==
    IF converted = <<>> THEN <<>>
    ELSE LET resp == converted[1]
         IN  TurnEvents(Response(FALSE,
                                 IF resp.response.text = "" THEN <<>>
                                 ELSE << resp.response.text >>,
                                 Len(resp.response.functionCalls),
                                 IF resp.finishReason = <<>> THEN "NONE"
                                 ELSE resp.finishReason[1]),
                        0, 0, FALSE)

\* The generator converts one parsed frame.
ConvertFrame ==
    /\ routerData # <<>>
    /\ routerResponse = <<>>
    /\ routerResponse' = << ConvertFromOpenRouterFrame(routerData[1]) >>
    /\ UNCHANGED << hookVars, mcpVars, typeVars, sseVars, speakerVars, dialogVars, checkpointVars, extraVars,
                    routerData, routerRequest, routerMessages >>

\* One call of convertToOpenRouterFormat.
ConvertRequest ==
    /\ routerRequest # <<>>
    /\ routerMessages = <<>>
    /\ routerMessages' = << ConvertToOpenRouterFormat(routerRequest[1]) >>
    /\ UNCHANGED << hookVars, mcpVars, typeVars, sseVars, speakerVars, dialogVars, checkpointVars, extraVars,
                    routerData, routerResponse, routerRequest >>

\* --------------------------------------------------------- checkNextSpeaker
\* The ways a generateJson call settles: it throws, or it returns an object
\* whose next_speaker may be missing, a string, or not a string.
JsonAnswers ==
    [throws : {TRUE}, reasoning : {<<>>}, next_speaker : {<<>>}]
    \cup [throws : {FALSE},
          reasoning : {<<>>, << "r" >>},
          next_speaker : {<<>>} \cup
              {<< [isString |-> b, value |-> v] >> :
                   b \in BOOLEAN, v \in {"user", "model", "neither"}}]

\* A test that keeps any string.
ValidNextSpeakerAnyString(answer) ==
    /\ ~answer.throws
    /\ answer.next_speaker # <<>>
    /\ answer.next_speaker[1].isString

\* The test on the parsed answer: next_speaker is the string user or model.
ValidNextSpeaker(answer) ==
    /\ ~answer.throws
    /\ answer.next_speaker # <<>>
    /\ answer.next_speaker[1].isString
    /\ answer.next_speaker[1].value \in {"user", "model"}

\* checkNextSpeaker up to its generateJson call: null at once unless the
\* last message of the history is the model's.
CheckNextSpeaker ==
    /\ speakerPc = "idle"
    /\ IF chatHistory = <<>> \/ chatHistory[Len(chatHistory)] # "model"
       THEN /\ nextSpeakerResult' = << <<>> >>
            /\ speakerPc' = "returned"
            /\ UNCHANGED generateJsonCalls
       ELSE /\ generateJsonCalls' = generateJsonCalls + 1
            /\ speakerPc' = "asking"
            /\ UNCHANGED nextSpeakerResult
    /\ UNCHANGED << hookVars, mcpVars, typeVars, sseVars, routerVars, dialogVars, checkpointVars, extraVars,
                    chatHistory, jsonAnswer >>

\* The generateJson call settles: the answer is returned if it is valid,
\* null if the call threw or the answer is not valid.
GenerateJsonSettles(answer) ==
    /\ speakerPc = "asking"
    /\ jsonAnswer' = << answer >>
    /\ nextSpeakerResult' =
           << IF ValidNextSpeaker(answer) THEN << answer >> ELSE <<>> >>
    /\ speakerPc' = "returned"
    /\ UNCHANGED << hookVars, mcpVars, typeVars, sseVars, routerVars, dialogVars, checkpointVars, extraVars,
                    chatHistory, generateJsonCalls >>

\* --------------------------------------------------------------- AuthDialog
AuthTypes == {"oauth-personal", "api-key", "vertex-ai"}

MustSelect == "You must select an auth method to proceed. Press Ctrl+C twice to exit."

\* The message the dialog shows when it is rendered: the initial error
\* message if one is given, else the complaint about an invalid default auth
\* type, else the notice of an API key found in the environment.
InitialErrorMessage(initialErrorMessage, env) ==
    IF initialErrorMessage # <<>> THEN initialErrorMessage
    ELSE IF env.defaultAuthType # <<>> /\ env.defaultAuthType[1] \notin AuthTypes
    THEN << "Invalid value for DEFAULT_AUTH_TYPE" >>
    ELSE IF env.apiKey /\ env.defaultAuthType \in {<<>>, << "api-key" >>}
    THEN << "Existing API key detected" >>
    ELSE <<>>

\* An escape handler that does not look at the message showing.
AuthDialogEscapeIgnoringMessage ==
    /\ escapes' = escapes + 1
    /\ IF selectedAuthType = <<>>
       THEN /\ errorMessage' = << MustSelect >>
            /\ UNCHANGED onSelectCalls
       ELSE /\ onSelectCalls' = Append(onSelectCalls, [authMethod |-> <<>>, scope |-> "User"])
            /\ UNCHANGED errorMessage
    /\ UNCHANGED << hookVars, mcpVars, typeVars, sseVars, routerVars, speakerVars, checkpointVars, extraVars,
                    selectedAuthType, authEnv >>

\* The escape key: nothing while a message is showing; the must-select
\* message if no auth method is selected; else onSelect(undefined, User).
AuthDialogEscape ==
    /\ escapes' = escapes + 1
    /\ IF errorMessage # <<>>
       THEN UNCHANGED << errorMessage, onSelectCalls >>
       ELSE IF selectedAuthType = <<>>
       THEN /\ errorMessage' = << MustSelect >>
            /\ UNCHANGED onSelectCalls
       ELSE /\ onSelectCalls' = Append(onSelectCalls, [authMethod |-> <<>>, scope |-> "User"])
            /\ UNCHANGED errorMessage
    /\ UNCHANGED << hookVars, mcpVars, typeVars, sseVars, routerVars, speakerVars, checkpointVars, extraVars,
                    selectedAuthType, authEnv >>

\* ------------------------------------------------- saveRestorableToolCalls
\* The tracked calls the effect keeps: replace and write_file calls that
\* await approval.
RestorableToolCalls(tcs) ==
    {i \in 1..Len(tcs) :
        /\ toolRequests[i].name \in {"replace", "write_file"}
        /\ tcs[i].status = "awaiting_approval"}

Checkpoint(i, tcs) ==
    [callId |-> tcs[i].callId, name |-> toolRequests[i].name,
     filePath |-> toolRequests[i].file_path[1]]

\* The files one run of saveRestorableToolCalls writes, in the order of the
\* tracked calls: none when checkpointing is off or there is no project temp
\* dir; a call without file_path or without commit hash is skipped.
RECURSIVE SavedFrom(_, _)
SavedFrom(i, tcs) ==
    IF i > Len(tcs) THEN <<>>
    ELSE (IF /\ i \in RestorableToolCalls(tcs)
             /\ toolRequests[i].file_path # <<>>
             /\ checkpointConfig.commitHash
          THEN << Checkpoint(i, tcs) >> ELSE <<>>) \o SavedFrom(i + 1, tcs)

SaveRestorableToolCalls(tcs) ==
    IF checkpointConfig.checkpointingEnabled /\ checkpointConfig.projectTempDir
    THEN SavedFrom(1, tcs) ELSE <<>>

\* The effect's dependencies toolCalls or history have changed since it ran.
EffectDue == effectSeen # << toolCalls, history >>

\* useEffect(saveRestorableToolCalls, [toolCalls, ..., history, ...]): the
\* effect runs after a render in which toolCalls or history changed.
SaveEffect ==
    /\ EffectDue
    /\ checkpoints' = checkpoints \o SaveRestorableToolCalls(toolCalls)
    /\ effectSeen' = << toolCalls, history >>
    /\ UNCHANGED << hookVars, mcpVars, typeVars, sseVars, routerVars, speakerVars,
                    dialogVars, extraVars, checkpointConfig, toolRequests >>


\* ------------------------------------------------------ the loop-detected flag
\* What a turn does with loopDetectedRef: the stream's events set it, the end
\* of submitQuery's try block reads and clears it.
LoopItem(type, turn) == [type |-> type, turn |-> turn]

notLoopVars ==
    << hookVars, mcpVars, typeVars, sseVars, routerVars, speakerVars, dialogVars,
       checkpointVars, filterVars >>

\* submitQuery is accepted and the stream of a new turn is opened.
LoopSubmitQuery ==
    /\ loopPc = "idle"
    /\ loopTurns' = loopTurns + 1
    /\ loopPc' = "stream"
    /\ loopReceived' = FALSE
    /\ UNCHANGED << notLoopVars, loopDetectedRef, loopPending, loopItems >>

\* case Content: the text goes to the pending history item.
LoopContentEvent ==
    /\ loopPc = "stream"
    /\ loopPending' = TRUE
    /\ UNCHANGED << notLoopVars, loopDetectedRef, loopPc, loopReceived, loopItems, loopTurns >>

\* case LoopDetected: the flag is set, the item is left for later.
LoopDetectedEvent ==
    /\ loopPc = "stream"
    /\ loopDetectedRef' = TRUE
    /\ loopReceived' = TRUE
    /\ UNCHANGED << notLoopVars, loopPc, loopPending, loopItems, loopTurns >>

\* The stream ends: the pending item is added, then the loop-halt item when
\* the flag is set, and the flag is cleared; the finally block ends the call.
LoopStreamCompleted ==
    /\ loopPc = "stream"
    /\ loopItems' =
           loopItems
               \o (IF loopPending THEN << LoopItem("model", loopTurns) >> ELSE <<>>)
               \o (IF loopDetectedRef THEN << LoopItem("loop_halt", loopTurns) >> ELSE <<>>)
    /\ loopPending' = FALSE
    /\ loopDetectedRef' = FALSE
    /\ loopPc' = "idle"
    /\ UNCHANGED << notLoopVars, loopReceived, loopTurns >>

\* The stream raises: an error item is added unless the error is an auth
\* error or an AbortError; the finally block ends the call.
LoopStreamThrows(err) ==
    /\ loopPc = "stream"
    /\ loopItems' =
           loopItems
               \o (IF err = "other" THEN << LoopItem("error", loopTurns) >> ELSE <<>>)
    /\ loopPc' = "idle"
    /\ UNCHANGED << notLoopVars, loopDetectedRef, loopReceived, loopPending, loopTurns >>

\* ------------------------------------------------------ file discovery
\* The paths of the project: ignored by git, by the project's ignore file, by
\* both, by none.
Paths == {"g", "p", "gp", "n"}

IsGitIgnored(filePath) == filePath \in {"g", "gp"}

IsProjectIgnored(filePath) == filePath \in {"p", "gp"}

PathLists == UNION {[1..n -> Paths] : n \in 0..MaxPaths}

\* An options object: each flag is true, false or left out.
Flags == {<<>>, << TRUE >>, << FALSE >>}

FilterFilesOptions ==
    {[respectGitIgnore |-> g, respectcasualresearchIgnore |-> c] : g \in Flags, c \in Flags}

\* The options argument: omitted, or an options object.
OptionArguments == {<<>>} \cup {<< o >> : o \in FilterFilesOptions}

\* gitIgnoreFilter is null when the project root is no git repository.
ShouldGitIgnoreFile(filePath) ==
    IF gitRepository THEN IsGitIgnored(filePath) ELSE FALSE

ShouldcasualresearchIgnoreFile(filePath) == IsProjectIgnored(filePath)

\* filterFiles: the default { true, true } stands for an omitted options
\* argument only; a flag an options object leaves out is undefined, falsy.
FilterFiles(paths, options) ==
    LET o == IF options = <<>>
             THEN [respectGitIgnore |-> << TRUE >>, respectcasualresearchIgnore |-> << TRUE >>]
             ELSE options[1]
        Keep(filePath) ==
            /\ ~(o.respectGitIgnore = << TRUE >> /\ ShouldGitIgnoreFile(filePath))
            /\ ~(o.respectcasualresearchIgnore = << TRUE >>
                    /\ ShouldcasualresearchIgnoreFile(filePath))
    IN  SelectSeq(paths, Keep)

\* shouldIgnoreFile: options defaults to {}, and each flag to true.
ShouldIgnoreFile(filePath, options) ==
    LET o == IF options = <<>>
             THEN [respectGitIgnore |-> <<>>, respectcasualresearchIgnore |-> <<>>]
             ELSE options[1]
        respectGitIgnore ==
            IF o.respectGitIgnore = <<>> THEN TRUE ELSE o.respectGitIgnore[1]
        respectcasualresearchIgnore ==
            IF o.respectcasualresearchIgnore = <<>> THEN TRUE
            ELSE o.respectcasualresearchIgnore[1]
    IN  \/ respectGitIgnore /\ ShouldGitIgnoreFile(filePath)
        \/ respectcasualresearchIgnore /\ ShouldcasualresearchIgnoreFile(filePath)

notFilterVars ==
    << hookVars, mcpVars, typeVars, sseVars, routerVars, speakerVars, dialogVars,
       checkpointVars, loopVars >>

CallFilterFiles ==
    /\ filterResult = <<>>
    /\ filterResult' = << FilterFiles(filePaths, filterOptions) >>
    /\ UNCHANGED << notFilterVars, filePaths, filterOptions, gitRepository, ignoreResults >>

CallShouldIgnoreFile(i) ==
    /\ i \in 1..Len(filePaths)
    /\ ignoreResults[i] = <<>>
    /\ ignoreResults' =
           [ignoreResults EXCEPT ![i] = << ShouldIgnoreFile(filePaths[i], filterOptions) >>]
    /\ UNCHANGED << notFilterVars, filePaths, filterOptions, gitRepository, filterResult >>


\* ------------------------------------------------------------ specification
MaxSubs == MaxPrompts + MaxCalls

\* The session's budgets: a prompt is accepted, and a raw response delivered,
\* while the budget lasts.
MayPrompt(kind) ==
    /\ Cardinality(UserSubs) < MaxPrompts
    /\ kind = "tool" => nextCall < MaxCalls

MayRespond(s, r) ==
    /\ s \in 1..Len(subs)
    /\ TotalResponses < MaxResponses
    /\ nextCall + CallsOf(r, subs[s].aborted) <= MaxCalls

\* No submitQuery call is in progress.
NoneInProgress == \A s \in 1..Len(subs) : subs[s].pc = "done"

\* The tool pipeline: the user submits one query and never presses escape;
\* the backend answers with text and function calls, may fail and may fall
\* back on quota; tools are validated, confirmed, executed.
Next ==
    \/ SubmitRejected
    \/ \E kind \in {"text", "empty", "handled", "tool"} :
          subs = <<>> /\ MayPrompt(kind) /\ SubmitAccepted(kind)
    \/ \E s \in 1..MaxSubs : PrepDone(s)
    \/ \E s \in 1..MaxSubs, r \in Responses :
          MayRespond(s, r) /\ TurnResponse(s, r, 0)
    \/ \E s \in 1..MaxSubs : StreamEnd(s)
    \/ \E s \in 1..MaxSubs, err \in {"unauthorized", "other"} : TurnThrow(s, err)
    \/ \E s \in 1..MaxSubs : Post(s)
    \/ QuotaFallback
    \/ \E i \in 1..MaxCalls, outcome \in {"scheduled", "awaiting_approval", "error"} :
          ToolValidate(i, outcome, "part")
    \/ \E i \in 1..MaxCalls, decision \in {"proceed", "cancel"} : ToolConfirm(i, decision)
    \/ \E i \in 1..MaxCalls : ToolExecute(i)
    \/ \E i \in 1..MaxCalls, shape \in ResponseShapes : ToolFinish(i, "success", shape)
    \/ \E i \in 1..MaxCalls : ToolFinish(i, "error", "part")

Spec == Init /\ [][Next]_vars

\* What the program and its environment owe: a pre-processing returns, a
\* stream ends, a submitQuery call runs to its end, the scheduler validates
\* and runs its calls and the user answers a confirmation.
Progress ==
    \/ \E s \in 1..MaxSubs : PrepDone(s)
    \/ \E s \in 1..MaxSubs : StreamEnd(s)
    \/ \E s \in 1..MaxSubs : Post(s)
    \/ \E i \in 1..MaxCalls, outcome \in {"scheduled", "awaiting_approval", "error"} :
          ToolValidate(i, outcome, "part")
    \/ \E i \in 1..MaxCalls, decision \in {"proceed", "cancel"} : ToolConfirm(i, decision)
    \/ \E i \in 1..MaxCalls : ToolExecute(i)
    \/ \E i \in 1..MaxCalls, shape \in ResponseShapes : ToolFinish(i, "success", shape)
    \/ \E i \in 1..MaxCalls : ToolFinish(i, "error", "part")

\* The tool pipeline under weak fairness of these steps.
SpecFair == Spec /\ WF_vars(Progress)

\* Submissions at any moment: the user submits whenever submitQuery is
\* callable, also while an earlier call awaits its pre-processing; the backend
\* answers with text, split anywhere.
NextSubmit ==
    \/ SubmitRejected
    \/ \E kind \in QueryKinds : MayPrompt(kind) /\ SubmitAccepted(kind)
    \/ \E s \in 1..MaxSubs : PrepDone(s)
    \/ \E s \in 1..MaxSubs, r \in TextResponses, cut \in {0, 1} :
          MayRespond(s, r) /\ TurnResponse(s, r, cut)
    \/ \E s \in 1..MaxSubs : StreamEnd(s)
    \/ \E s \in 1..MaxSubs : Post(s)
    \/ \E i \in 1..MaxCalls, outcome \in {"scheduled", "error"} :
          ToolValidate(i, outcome, "part")
    \/ \E i \in 1..MaxCalls : ToolExecute(i)
    \/ \E i \in 1..MaxCalls : ToolFinish(i, "success", "part")

SpecSubmit == Init /\ [][NextSubmit]_vars

\* Turns one after the other: the user submits while nothing is in progress;
\* the backend answers with text, split anywhere, and function calls; a tool
\* fails its validation.
NextTurns ==
    \/ SubmitRejected
    \/ \E kind \in QueryKinds : NoneInProgress /\ MayPrompt(kind) /\ SubmitAccepted(kind)
    \/ \E s \in 1..MaxSubs : PrepDone(s)
    \/ \E s \in 1..MaxSubs, r \in Responses, cut \in {0, 1} :
          MayRespond(s, r) /\ TurnResponse(s, r, cut)
    \/ \E s \in 1..MaxSubs : StreamEnd(s)
    \/ \E s \in 1..MaxSubs : Post(s)
    \/ \E i \in 1..MaxCalls : ToolValidate(i, "error", "part")

SpecTurns == Init /\ [][NextTurns]_vars

\* The cancel key: the user submits one query and presses escape at any
\* moment; tools are executed, or cancelled when their signal is aborted.
NextCancel ==
    \/ SubmitRejected
    \/ subs = <<>> /\ MayPrompt("text") /\ SubmitAccepted("text")
    \/ \E s \in 1..MaxSubs : PrepDone(s)
    \/ \E s \in 1..MaxSubs, r \in Responses :
          MayRespond(s, r) /\ TurnResponse(s, r, 0)
    \/ \E s \in 1..MaxSubs : StreamEnd(s)
    \/ \E s \in 1..MaxSubs : Post(s)
    \/ EscapeAccepted
    \/ EscapeIgnored
    \/ \E i \in 1..MaxCalls, outcome \in {"awaiting_approval", "error"} :
          ToolValidate(i, outcome, "part")
    \/ \E i \in 1..MaxCalls : ToolConfirm(i, "proceed")
    \/ \E i \in 1..MaxCalls : ToolExecute(i)
    \/ \E i \in 1..MaxCalls : ToolFinish(i, "success", "part")
    \/ \E i \in 1..MaxCalls : ToolAbort(i)

SpecCancel == Init /\ [][NextCancel]_vars

\* Call ids: the user submits one query; the backend answers with function
\* calls whose ids it supplies or omits; a tool fails its validation.
NextIds ==
    \/ SubmitRejected
    \/ \E kind \in {"text", "tool"} :
          subs = <<>> /\ MayPrompt(kind) /\ SubmitAccepted(kind)
    \/ \E s \in 1..MaxSubs : PrepDone(s)
    \/ \E s \in 1..MaxSubs, r \in IdResponses :
          MayRespond(s, r) /\ TurnResponse(s, r, 0)
    \/ \E s \in 1..MaxSubs : StreamEnd(s)
    \/ \E s \in 1..MaxSubs : Post(s)
    \/ \E i \in 1..MaxCalls : ToolValidate(i, "error", "part")

SpecIds == Init /\ [][NextIds]_vars

\* Backend failures: the user submits one query; the backend answers with
\* text and function calls and its request may raise any error; a tool fails
\* its validation.
NextErrors ==
    \/ SubmitRejected
    \/ subs = <<>> /\ MayPrompt("text") /\ SubmitAccepted("text")
    \/ \E s \in 1..MaxSubs : PrepDone(s)
    \/ \E s \in 1..MaxSubs, r \in Responses :
          MayRespond(s, r) /\ TurnResponse(s, r, 0)
    \/ \E s \in 1..MaxSubs : StreamEnd(s)
    \/ \E s \in 1..MaxSubs, err \in {"unauthorized", "other", "client", "abort"} :
          TurnThrow(s, err)
    \/ \E s \in 1..MaxSubs : Post(s)
    \/ \E i \in 1..MaxCalls : ToolValidate(i, "error", "part")

SpecErrors == Init /\ [][NextErrors]_vars

\* Cancelled turns: the user submits one query and may press escape at any
\* time; the backend answers with text and function calls, and its request
\* may raise an auth error or another error; a tool fails its validation.
NextAbort ==
    \/ subs = <<>> /\ MayPrompt("text") /\ SubmitAccepted("text")
    \/ \E s \in 1..MaxSubs : PrepDone(s)
    \/ \E s \in 1..MaxSubs, r \in Responses :
          MayRespond(s, r) /\ TurnResponse(s, r, 0)
    \/ \E s \in 1..MaxSubs : StreamEnd(s)
    \/ \E s \in 1..MaxSubs, err \in {"unauthorized", "other"} : TurnThrow(s, err)
    \/ \E s \in 1..MaxSubs : Post(s)
    \/ EscapeAccepted
    \/ EscapeIgnored
    \/ \E i \in 1..MaxCalls : ToolValidate(i, "error", "part")

SpecAbort == Init /\ [][NextAbort]_vars

\* A submission after a cancel: the user submits text, presses escape at any
\* time and submits again once the cancel was accepted; the backend answers
\* with text, also on the stream of the cancelled turn.
NextResubmit ==
    \/ /\ subs = <<>> \/ \E s \in 1..Len(subs) : subs[s].aborted
       /\ MayPrompt("text")
       /\ SubmitAccepted("text")
    \/ \E s \in 1..MaxSubs : PrepDone(s)
    \/ \E s \in 1..MaxSubs, r \in TextResponses :
          MayRespond(s, r) /\ TurnResponse(s, r, 0)
    \/ \E s \in 1..MaxSubs : StreamEnd(s)
    \/ \E s \in 1..MaxSubs : Post(s)
    \/ EscapeAccepted
    \/ EscapeIgnored

SpecResubmit == Init /\ [][NextResubmit]_vars

\* Quota fallback: the user submits text while nothing is in progress; the
\* backend answers with text and function calls and may fall back on quota
\* during a request; a tool fails its validation.
NextQuota ==
    \/ SubmitRejected
    \/ NoneInProgress /\ MayPrompt("text") /\ SubmitAccepted("text")
    \/ \E s \in 1..MaxSubs : PrepDone(s)
    \/ \E s \in 1..MaxSubs, r \in Responses :
          MayRespond(s, r) /\ TurnResponse(s, r, 0)
    \/ \E s \in 1..MaxSubs : StreamEnd(s)
    \/ \E s \in 1..MaxSubs : Post(s)
    \/ QuotaFallback
    \/ \E i \in 1..MaxCalls : ToolValidate(i, "error", "part")

SpecQuota == Init /\ [][NextQuota]_vars

\* MCP discovery: discoverMcpTools is called for one or both servers, a call
\* at a time; every connection and discovery outcome is drawn, and a client
\* error may be reported whenever a client is open.  A request that was
\* started is answered or fails, so each run goes on to its end.
ServerSelections == { << "a" >>, << "b" >>, << "a", "b" >> }

ConnectOutcomes == {"no_transport", "refused", "unauthorized", "connected"}

RunStep ==
    \/ \E n \in Range(Servers), outcome \in ConnectOutcomes :
           ConnectToMcpServer(n, outcome)
    \/ \E n \in Range(Servers), result \in {"unsupported", "error", "listed"},
          own \in PromptLists :
           DiscoverPrompts(n, result, own)
    \/ \E n \in Range(Servers), result \in {"error", "not_array", "listed"},
          decls \in DeclarationLists :
           DiscoverTools(n, result, decls)
    \/ DiscoveryCompleted

NextMcp ==
    \/ \E names \in ServerSelections :
           /\ discoveries < MaxDiscoveries
           /\ mcpDiscoveryState # "in_progress"
           /\ DiscoverMcpTools(names)
    \/ RunStep
    \/ \E n \in Range(Servers) : clientErrors < MaxClientErrors /\ ClientError(n)

SpecMcp == Init /\ [][NextMcp]_vars /\ WF_vars(RunStep)

\* Overlapping discovery: each discoverMcpTools call is over one server and
\* may be entered while the call over the other server is still running; a
\* call may also be made with an mcpServerCommand that does not parse.  A
\* request that was started is answered or fails, and a call whose run has
\* ended returns.
OverlapStep ==
    \/ \E n \in Range(Servers), outcome \in ConnectOutcomes :
           ConnectToMcpServer(n, outcome)
    \/ \E n \in Range(Servers), result \in {"unsupported", "error", "listed"},
          own \in PromptLists :
           DiscoverPrompts(n, result, own)
    \/ \E n \in Range(Servers), result \in {"error", "not_array", "listed"},
          decls \in DeclarationLists :
           DiscoverTools(n, result, decls)
    \/ \E n \in Range(Servers) : DiscoveryOfServerCompleted(n)

NextMcpOverlap ==
    \/ \E n \in Range(Servers) :
           /\ discoveries < MaxDiscoveries
           /\ mcpRuns[n].pc \in {"idle", "returned"}
           /\ DiscoverMcpTools(<< n >>)
    \/ discoveries < MaxDiscoveries /\ DiscoverMcpToolsRaises
    \/ OverlapStep

SpecMcpOverlap == Init /\ [][NextMcpOverlap]_vars /\ WF_vars(OverlapStep)

\* Schema validation: hasValidTypes is called once on a schema of the
\* bounded set.
InitTypes ==
    /\ HookInit
    /\ McpInit
    /\ SseIdle
    /\ SideIdle
    /\ schema \in Schemas
    /\ valid = <<>>

NextTypes == ValidateSchema

SpecTypes == InitTypes /\ [][NextTypes]_vars

\* Streaming: the generator reads a body of at most MaxChunks chunks.
InitSse ==
    /\ HookInit
    /\ McpInit
    /\ TypesIdle
    /\ SideIdle
    /\ body \in Bodies
    /\ readPos = 0
    /\ streamBuffer = <<>>
    /\ yielded = <<>>
    /\ generator = "reading"

NextSse == ReadChunk \/ ReadDone

SpecSse == InitSse /\ [][NextSse]_vars

\* The router's conversions: one message or delta is converted to a response,
\* or one request to router messages.
InitRouter ==
    /\ HookInit
    /\ McpInit
    /\ TypesIdle
    /\ SseIdle
    /\ SpeakerIdle
    /\ DialogIdle
    /\ CheckpointIdle
    /\ ExtraIdle
    /\ routerResponse = <<>>
    /\ routerMessages = <<>>
    /\ \/ routerRequest = <<>> /\ routerData \in {<< d >> : d \in RouterDatas}
       \/ routerData = <<>> /\ routerRequest \in {<< r >> : r \in Requests}

NextRouter == ConvertResponse \/ ConvertRequest

SpecRouter == InitRouter /\ [][NextRouter]_vars

\* One streamed frame is converted.
InitFrames ==
    /\ HookInit
    /\ McpInit
    /\ TypesIdle
    /\ SseIdle
    /\ SpeakerIdle
    /\ DialogIdle
    /\ CheckpointIdle
    /\ ExtraIdle
    /\ routerResponse = <<>>
    /\ routerMessages = <<>>
    /\ routerRequest = <<>>
    /\ routerData \in {<< f >> : f \in Frames}

NextFrames == ConvertFrame

SpecFrames == InitFrames /\ [][NextFrames]_vars

\* One checkNextSpeaker call over a history of at most MaxHistory messages.
InitSpeaker ==
    /\ HookInit
    /\ McpInit
    /\ TypesIdle
    /\ SseIdle
    /\ RouterIdle
    /\ DialogIdle
    /\ CheckpointIdle
    /\ ExtraIdle
    /\ chatHistory \in UNION {[1..n -> {"user", "model"}] : n \in 0..MaxHistory}
    /\ speakerPc = "idle"
    /\ generateJsonCalls = 0
    /\ jsonAnswer = <<>>
    /\ nextSpeakerResult = <<>>

NextSpeaker ==
    \/ CheckNextSpeaker
    \/ \E answer \in JsonAnswers : GenerateJsonSettles(answer)

SpecSpeaker == InitSpeaker /\ [][NextSpeaker]_vars

\* One auth dialog, rendered over some settings and environment, receives
\* at most MaxEscapes escape key presses.
InitDialog ==
    /\ HookInit
    /\ McpInit
    /\ TypesIdle
    /\ SseIdle
    /\ RouterIdle
    /\ SpeakerIdle
    /\ CheckpointIdle
    /\ ExtraIdle
    /\ selectedAuthType \in {<<>>} \cup {<< a >> : a \in AuthTypes}
    /\ authEnv \in [apiKey : BOOLEAN,
                    defaultAuthType : {<<>>, << "invalid-auth-type" >>}
                                          \cup {<< a >> : a \in AuthTypes}]
    /\ \E initialErrorMessage \in {<<>>, << "Initial error" >>} :
           errorMessage = InitialErrorMessage(initialErrorMessage, authEnv)
    /\ onSelectCalls = <<>>
    /\ escapes = 0

NextDialog == escapes < MaxEscapes /\ AuthDialogEscape

SpecDialog == InitDialog /\ [][NextDialog]_vars

\* Checkpoints: the user submits one query; the backend answers with
\* function calls, which are validated, confirmed and executed; the save
\* effect runs after every change of toolCalls or history, before anything
\* else happens.
ToolRequests ==
    {ToolRequest("write_file", << "f" >>), ToolRequest("replace", <<>>),
     ToolRequest("read_file", << "f" >>)}

CheckpointConfigs ==
    {[checkpointingEnabled |-> e, projectTempDir |-> d, commitHash |-> h] :
        e \in BOOLEAN, d \in BOOLEAN, h \in BOOLEAN}

InitCheckpoint ==
    /\ HookInit
    /\ McpInit
    /\ TypesIdle
    /\ SseIdle
    /\ RouterIdle
    /\ SpeakerIdle
    /\ DialogIdle
    /\ ExtraIdle
    /\ checkpointConfig \in CheckpointConfigs
    /\ toolRequests \in [1..MaxCalls -> ToolRequests]
    /\ checkpoints = <<>>
    /\ effectSeen = << <<>>, <<>> >>

NextCheckpoint ==
    \/ SaveEffect
    \/ /\ ~EffectDue
       /\ \/ subs = <<>> /\ MayPrompt("text") /\ SubmitAccepted("text")
          \/ \E s \in 1..MaxSubs : PrepDone(s)
          \/ \E s \in 1..MaxSubs, r \in Responses :
                r.ncalls > 0 /\ MayRespond(s, r) /\ TurnResponse(s, r, 0)
          \/ \E s \in 1..MaxSubs : StreamEnd(s)
          \/ \E s \in 1..MaxSubs : Post(s)
          \/ \E i \in 1..MaxCalls, outcome \in {"scheduled", "awaiting_approval"} :
                ToolValidate(i, outcome, "part")
          \/ \E i \in 1..MaxCalls, decision \in {"proceed", "cancel"} : ToolConfirm(i, decision)
          \/ \E i \in 1..MaxCalls : ToolExecute(i)
          \/ \E i \in 1..MaxCalls : ToolFinish(i, "success", "part")

SpecCheckpoint == InitCheckpoint /\ [][NextCheckpoint]_vars

\* The loop flag over MaxPrompts submissions: the stream delivers content and
\* LoopDetected events, ends or raises.
NextLoop ==
    \/ loopTurns < MaxPrompts /\ LoopSubmitQuery
    \/ LoopContentEvent
    \/ LoopDetectedEvent
    \/ LoopStreamCompleted
    \/ \E err \in {"unauthorized", "abort", "other"} : LoopStreamThrows(err)

SpecLoop == Init /\ [][NextLoop]_vars

\* One list of paths and one options argument given to filterFiles and, path
\* by path, to shouldIgnoreFile.
InitFilter ==
    /\ HookInit
    /\ McpInit
    /\ TypesIdle
    /\ SseIdle
    /\ RouterIdle
    /\ SpeakerIdle
    /\ DialogIdle
    /\ CheckpointIdle
    /\ LoopIdle
    /\ filePaths \in PathLists
    /\ filterOptions \in OptionArguments
    /\ gitRepository \in BOOLEAN
    /\ filterResult = <<>>
    /\ ignoreResults = [i \in 1..Len(filePaths) |-> <<>>]

NextFilter ==
    \/ CallFilterFiles
    \/ \E i \in 1..MaxPaths : CallShouldIgnoreFile(i)

SpecFilter == InitFilter /\ [][NextFilter]_vars


\* ------------------------------------------------------------ properties
\* Every submitQuery call has returned and every tracked call is terminal:
\* nothing but a new input can happen.
Quiescent ==
    /\ NoneInProgress
    /\ \A i \in 1..Len(toolCalls) : toolCalls[i].status \in TerminalStatus

\* The message m of the client history carries response parts of call c.
CarriesResponse(m, c) ==
    /\ m.role = "user"
    /\ \E j \in 1..Len(m.parts) :
          m.parts[j].k \in {"functionResponse", "text", "string"} /\ m.parts[j].id = c

Answered(c) == \E n \in 1..Len(clientHistory) : CarriesResponse(clientHistory[n], c)

\* The continuation messages passed to the backend that carry parts of call c.
SendsOf(c) ==
    {n \in 1..Len(sent) :
        sent[n].cont /\ \E j \in 1..Len(sent[n].msg) : sent[n].msg[j].id = c}

\* The model's calls of batch b, in batch order, and their call ids.
BatchTools(b) == SelectSeq(toolCalls, LAMBDA t : t.batch = b /\ IsModelTool(t))
BatchIds(b) == MapSeq(CallIdOf, BatchTools(b))

\* The continuation submissions made for batch b.
ContinuationsOf(b) ==
    {s \in 1..Len(subs) : subs[s].cont /\ subs[s].toMark = BatchIds(b)}

\* C1: at most one non-continuation submission is in progress at any time,
\* also while an earlier one still awaits its input pre-processing.
C1_Serialized ==
    Cardinality({s \in UserSubs : subs[s].pc # "done"}) <= 1

\* C2: once nothing is left to run, every tool call the model requested has
\* its response parts in the client's conversation history.
C2_EveryRequestAnswered ==
    Quiescent =>
        \A i \in 1..Len(toolCalls) :
            IsModelTool(toolCalls[i]) => Answered(toolCalls[i].callId)

\* C3: once nothing is left to run, the response parts of every model tool
\* call that ended in success or error were sent in exactly one continuation.
C3_SentExactlyOnce ==
    Quiescent =>
        \A i \in 1..Len(toolCalls) :
            (IsModelTool(toolCalls[i]) /\ toolCalls[i].status \in {"success", "error"})
                => Cardinality(SendsOf(toolCalls[i].callId)) = 1

\* C4: a model tool call is marked responseSubmitted only if its parts were
\* appended directly to the client history (batch all cancelled) or went out
\* in a continuation submission that returned without an error.
C4_MarkedOnlyAfterSent ==
    \A i \in 1..Len(toolCalls) :
        (IsModelTool(toolCalls[i]) /\ toolCalls[i].responseSubmitted) =>
            \/ \E n \in 1..Len(clientHistory) :
                  clientHistory[n] =
                      [role |-> "user",
                       parts |-> CombinedParts(BatchTools(toolCalls[i].batch))]
            \/ \E s \in 1..Len(subs) :
                  /\ subs[s].cont
                  /\ toolCalls[i].callId \in Range(subs[s].toMark)
                  /\ SendsOf(toolCalls[i].callId) # {}
                  /\ subs[s].pc = "done"
                  /\ subs[s].err = "none"

\* C5: a completed batch whose model calls are all cancelled has their parts
\* in the client history as one user message, no continuation, and the calls
\* marked; any other completed batch with model calls has exactly one
\* continuation, carrying the parts of all of them.
C5_BatchOutcome ==
    \A b \in 1..nextBatch :
        (BatchTerminal(toolCalls, b) /\ BatchTools(b) # <<>>) =>
            IF \A i \in 1..Len(BatchTools(b)) : BatchTools(b)[i].status = "cancelled"
            THEN /\ \E n \in 1..Len(clientHistory) :
                       clientHistory[n] =
                           [role |-> "user", parts |-> CombinedParts(BatchTools(b))]
                 /\ ContinuationsOf(b) = {}
                 /\ \A i \in 1..Len(BatchTools(b)) : BatchTools(b)[i].responseSubmitted
            ELSE /\ Cardinality(ContinuationsOf(b)) = 1
                 /\ \A s \in ContinuationsOf(b) :
                       \A i \in 1..Len(BatchTools(b)) :
                           \E j \in 1..Len(subs[s].msg) :
                               subs[s].msg[j].id = BatchTools(b)[i].callId

\* The info item the escape handler adds.
CancelledItem == Item("info", << "Request cancelled." >>)

\* What the escape handler does when it cancels: the current controller is
\* aborted, the pending item flushed and cleared, the info item added, the
\* cancel-submit callback notified, isResponding cleared.
CancelEffects ==
    /\ abortControllerRef # 0 => subs'[abortControllerRef].aborted
    /\ history' = Append(IF pendingHistoryItemRef # NoItem
                         THEN Append(history, pendingHistoryItemRef) ELSE history,
                         CancelledItem)
    /\ pendingHistoryItemRef' = NoItem
    /\ cancelSubmitCount' = cancelSubmitCount + 1
    /\ isResponding' = FALSE

NothingChanges ==
    UNCHANGED << isResponding, toolCalls, turnCancelledRef, abortControllerRef,
                 pendingHistoryItemRef, history, clientHistory, promptCount,
                 modelSwitchedFromQuotaError, subs, sent, nextCall, nextBatch,
                 cancelSubmitCount, authErrorCount >>

\* C6, as stated: every escape key event in state Responding cancels, and
\* every other escape key event changes nothing.
C6_EscapeCancelsWhileResponding ==
    [][keyTick' # keyTick =>
          IF streamingState = "Responding" THEN CancelEffects ELSE NothingChanges]_vars

\* C6, amended: every escape key event in state Responding of a turn not yet
\* cancelled cancels, and every other escape key event changes nothing.
C6_EscapeCancelsOnce ==
    [][keyTick' # keyTick =>
          IF streamingState = "Responding" /\ ~turnCancelledRef
          THEN CancelEffects ELSE NothingChanges]_vars

\* Escape has cancelled a turn that had a pending item: the item was flushed
\* right before the info item.
C6_Witness ==
    /\ cancelSubmitCount = 1
    /\ ~isResponding
    /\ pendingHistoryItemRef = NoItem
    /\ \E n \in 2..Len(history) :
          history[n] = CancelledItem /\ history[n - 1].type = "model"
    /\ \E s \in 1..Len(subs) : subs[s].aborted

RECURSIVE ContentOf(_)
ContentOf(resps) ==
    IF resps = <<>> THEN <<>>
    ELSE (IF Head(resps).thought THEN <<>> ELSE Head(resps).text)
         \o ContentOf(Tail(resps))

\* The text of the model and model_content items among some history items.
RECURSIVE ModelText(_)
ModelText(items) ==
    IF items = <<>> THEN <<>>
    ELSE (IF Head(items).type \in {"model", "model_content"}
          THEN Head(items).text ELSE <<>>)
         \o ModelText(Tail(items))

PendingText ==
    IF pendingHistoryItemRef.type \in {"model", "model_content"}
    THEN pendingHistoryItemRef.text ELSE <<>>

\* C8: for a turn that is streaming or has just streamed and was not
\* cancelled, the model text flushed to the history since the turn began,
\* followed by the pending text, is the text of its Content events in order.
C8_ContentLossless ==
    \A s \in 1..Len(subs) :
        (subs[s].pc \in {"stream", "post"} /\ ~subs[s].aborted) =>
            ModelText(SubSeq(history, subs[s].histStart + 1, Len(history)))
                \o PendingText
            = ContentOf(subs[s].resps)

IsSuffix(a, b) ==
    Len(a) <= Len(b) /\ a = SubSeq(b, Len(b) - Len(a) + 1, Len(b))

EventRank(e) ==
    CASE e.type = "content" -> 1
      [] e.type = "tool_call_request" -> 2
      [] e.type = "finished" -> 3
      [] OTHER -> 0

\* The model's calls scheduled with the signal of submission s, in the
\* scheduler's order.
ScheduledBy(s) == SelectSeq(toolCalls, LAMBDA t : t.signal = s /\ IsModelTool(t))

RECURSIVE ExpectedParts(_)
ExpectedParts(tools) ==
    IF tools = <<>> THEN <<>>
    ELSE (IF Head(tools).responseParts.tag = "array"
          THEN Head(tools).responseParts.parts
          ELSE << Head(tools).responseParts.parts[1] >>)
         \o ExpectedParts(Tail(tools))

\* C10: every continuation message passed to the backend is the parts of the
\* model calls of one batch in batch order, arrays flattened, with the prompt
\* id of the batch's first call; no batch has two continuation messages.
C10_SingleMergedContinuation ==
    /\ \A n \in 1..Len(sent) :
          sent[n].cont =>
              \E b \in 1..nextBatch :
                  /\ BatchTools(b) # <<>>
                  /\ subs[sent[n].sub].toMark = BatchIds(b)
                  /\ sent[n].msg = ExpectedParts(BatchTools(b))
                  /\ sent[n].prompt_id = BatchTools(b)[1].prompt_id
    /\ \A m, n \in 1..Len(sent) :
          (sent[m].cont /\ sent[n].cont
             /\ subs[sent[m].sub].toMark = subs[sent[n].sub].toMark) => m = n

\* A continuation carried a batch of two calls, one of them with an array.
C10_Witness ==
    \E n \in 1..Len(sent) :
        /\ sent[n].cont
        /\ Len(subs[sent[n].sub].toMark) = 2
        /\ Len(sent[n].msg) = 3

\* C11: no two requests of a session have the same call id: the requests a
\* turn collected have distinct ids, over all turns, and so have the calls
\* the scheduler tracks.
C11_UniqueCallIds ==
    /\ \A s, t \in 1..Len(subs) :
          \A i \in 1..Len(subs[s].reqs), j \in 1..Len(subs[t].reqs) :
              subs[s].reqs[i].callId = subs[t].reqs[j].callId => (s = t /\ i = j)
    /\ \A i, j \in 1..Len(toolCalls) :
          toolCalls[i].callId = toolCalls[j].callId => i = j

\* C12: a client-initiated call that is terminal is marked submitted, and its
\* parts are in no continuation message and in no message of the client
\* history.
C12_ClientToolsStayLocal ==
    \A i \in 1..Len(toolCalls) :
        IsClientTool(toolCalls[i]) =>
            /\ toolCalls[i].status \in TerminalStatus => toolCalls[i].responseSubmitted
            /\ SendsOf(toolCalls[i].callId) = {}
            /\ ~Answered(toolCalls[i].callId)

\* The error items among some history items.
ErrorItems(items) == {n \in 1..Len(items) : items[n].type = "error"}

\* The submissions whose request raised err.
Raised(err) == {s \in 1..Len(subs) : subs[s].err = err /\ ~subs[s].aborted}

\* The request of submission s raises err in this step.
Raises(s, err) ==
    /\ s \in 1..Len(subs)
    /\ ~subs[s].aborted
    /\ subs[s].err = "none"
    /\ subs'[s].err = err

\* C13: a request that raises the auth error makes one onAuthError call, adds
\* no item to the history and leaves isResponding false; one that raises any
\* other error but an abort adds one error item and makes no onAuthError
\* call; and over a session the onAuthError calls are as many as the auth
\* errors, the error items as many as the other errors.
C13_AuthErrorHandled ==
    /\ [](/\ authErrorCount = Cardinality(Raised("unauthorized"))
          /\ Cardinality(ErrorItems(history))
                = Cardinality(Raised("other") \cup Raised("client")))
    /\ [][\A s \in 1..MaxSubs :
            /\ Raises(s, "unauthorized") =>
                  /\ authErrorCount' = authErrorCount + 1
                  /\ history' = history
                  /\ ~isResponding'
            /\ (Raises(s, "other") \/ Raises(s, "client")) =>
                  /\ authErrorCount' = authErrorCount
                  /\ Cardinality(ErrorItems(history'))
                        = Cardinality(ErrorItems(history)) + 1]_vars

\* A continuation's request raised the auth error after the user's request
\* had raised another error.
C13_Witness ==
    /\ authErrorCount = 1
    /\ Cardinality(ErrorItems(history)) = 1
    /\ ~isResponding
    /\ \E s \in 1..Len(subs) : subs[s].cont /\ subs[s].err = "unauthorized"

\* This step makes a submitQuery call, a continuation or not.
Submits(cont) ==
    /\ Len(subs') = Len(subs) + 1
    /\ subs'[Len(subs')].cont = cont

\* C14: no step taken with the quota flag set submits a continuation, and
\* every step that accepts a non-continuation submission leaves the flag
\* false.
C14_QuotaStopsContinuation ==
    [][/\ modelSwitchedFromQuotaError => ~Submits(TRUE)
       /\ Submits(FALSE) => ~modelSwitchedFromQuotaError']_vars

\* With the flag set, a batch with a failed call completed after its turn had
\* flushed its text, and got no continuation.
C14_Witness ==
    /\ modelSwitchedFromQuotaError
    /\ \E n \in 1..(Len(history) - 1) :
          /\ history[n].type = "model"
          /\ history[n + 1].type = "tool_group"
          /\ BatchTerminal(toolCalls, history[n + 1].text[1])
          /\ \E i \in 1..Len(toolCalls) :
                /\ toolCalls[i].batch = history[n + 1].text[1]
                /\ toolCalls[i].status = "error"
                /\ ~toolCalls[i].responseSubmitted
          /\ ContinuationsOf(history[n + 1].text[1]) = {}

\* ------------------------------------------------------------ MCP servers
StatusTransitions ==
    { << DISCONNECTED, CONNECTING >>, << CONNECTING, CONNECTED >>,
      << CONNECTING, DISCONNECTED >> }

\* C15 as stated: every change of a server's status is DISCONNECTED ->
\* CONNECTING, CONNECTING -> CONNECTED or CONNECTING -> DISCONNECTED; a run
\* that is under way has set CONNECTING, and a run that has returned has set
\* CONNECTED or DISCONNECTED after it.
C15_StatusTransitions ==
    /\ [][\A n \in Range(Servers) :
              StatusIn(serverStatuses', n) # StatusIn(serverStatuses, n) =>
                  << StatusIn(serverStatuses, n), StatusIn(serverStatuses', n) >>
                      \in StatusTransitions]_vars
    /\ [](\A n \in Range(Servers) :
              /\ mcpRuns[n].pc # "idle" => CONNECTING \in Range(statusLog[n])
              /\ mcpRuns[n].pc = "done" =>
                     StatusIn(serverStatuses, n) \in {CONNECTED, DISCONNECTED})

\* C15: a server's status changes to CONNECTING when a connectAndDiscover run
\* of it starts, to CONNECTED or DISCONNECTED when that run returns, and to
\* DISCONNECTED when its open client reports an error, and at no other step;
\* each run first sets CONNECTING and has set CONNECTED or DISCONNECTED, the
\* latest status notified, by the time it returns.
C15_StatusChangesByCause ==
    /\ [][\A n \in Range(Servers) :
              StatusIn(serverStatuses', n) # StatusIn(serverStatuses, n) =>
                  \/ /\ StatusIn(serverStatuses', n) = CONNECTING
                     /\ mcpRuns[n].pc \in {"idle", "done"}
                     /\ mcpRuns'[n].pc = "connect"
                  \/ /\ StatusIn(serverStatuses', n) \in {CONNECTED, DISCONNECTED}
                     /\ mcpRuns[n].pc \in {"connect", "tools"}
                     /\ mcpRuns'[n].pc = "done"
                  \/ /\ StatusIn(serverStatuses', n) = DISCONNECTED
                     /\ mcpRuns[n].client = "open"
                     /\ clientErrors' = clientErrors + 1]_vars
    /\ [][\A n \in Range(Servers) :
              /\ (mcpRuns[n].pc # "connect" /\ mcpRuns'[n].pc = "connect") =>
                     /\ StatusIn(serverStatuses', n) = CONNECTING
                     /\ statusLog'[n] = << CONNECTING >>
              /\ (mcpRuns[n].pc # "done" /\ mcpRuns'[n].pc = "done") =>
                     /\ StatusIn(serverStatuses', n) \in {CONNECTED, DISCONNECTED}
                     /\ statusLog'[n][Len(statusLog'[n])] = StatusIn(serverStatuses', n)
                     /\ Head(statusLog'[n]) = CONNECTING]_vars
    /\ [](\A n \in Range(Servers) :
              mcpRuns[n].pc = "done" =>
                  StatusIn(serverStatuses, n) \in {CONNECTED, DISCONNECTED})

\* A client reported an error during discovery and the run then found a tool:
\* the status went from DISCONNECTED to CONNECTED.
C15_Witness ==
    \E n \in Range(Servers) :
        /\ mcpRuns[n].pc = "done"
        /\ statusLog[n] = << CONNECTING, DISCONNECTED, CONNECTED >>
        /\ StatusIn(serverStatuses, n) = CONNECTED

\* The run of server n connected and found no prompt of its own and no tool.
FoundNothing(n) ==
    /\ mcpRuns[n].pc = "done"
    /\ mcpRuns[n].outcome = "connected"
    /\ mcpRuns[n].ownPrompts = {}
    /\ mcpRuns[n].tools = {}

\* C16: a server whose run found neither a prompt of its own nor a tool ends
\* DISCONNECTED with its client closed and no tool of it registered, whatever
\* the other servers found.
C16_EmptyServerFails ==
    \A n \in Range(Servers) :
        FoundNothing(n) =>
            /\ StatusIn(serverStatuses, n) = DISCONNECTED
            /\ mcpRuns[n].client = "closed"
            /\ ~\E tl \in toolRegistry : tl[1] = n

\* C17: a server whose first connection was answered 401/403 with a
\* WWW-Authenticate header is reconnected with a bearer token: by the end of
\* its run the statuses observed are CONNECTING, DISCONNECTED, CONNECTING,
\* CONNECTED and a tool of it is registered.
C17_OAuthReconnect ==
    \A n \in Range(Servers) :
        (mcpRuns[n].pc = "done" /\ mcpRuns[n].outcome = "unauthorized") =>
            /\ IsSuffix(<< CONNECTING, DISCONNECTED, CONNECTING, CONNECTED >>,
                        statusLog[n])
            /\ \E tl \in toolRegistry : tl[1] = n

\* The run of server n failed: no transport, no connection, or a discovery
\* that raised and gave nothing of the server's own.
RunFailed(n) ==
    /\ mcpRuns[n].pc = "done"
    /\ \/ mcpRuns[n].outcome \in {"no_transport", "refused", "unauthorized"}
       \/ /\ mcpRuns[n].toolsResult = "error"
          /\ mcpRuns[n].ownPrompts = {}

\* The isolation half of C18: a call of discoverMcpTools resolves, whatever
\* its servers met.
DiscoveryResolves == (mcpDiscoveryState = "in_progress") ~> (mcpDiscoveryState = "completed")

\* C18: a server whose transport creation, connection or discovery failed
\* ends DISCONNECTED, every run of the call goes on to its end and
\* discoverMcpTools resolves.
C18_FailuresStayLocal ==
    /\ [](\A n \in Range(Servers) :
              RunFailed(n) => StatusIn(serverStatuses, n) = DISCONNECTED)
    /\ DiscoveryResolves

\* -------------------------------------------------------- parameter schemas
\* The schema nodes below a node: the properties of an object, the items of
\* an array.
Children(s) ==
    (IF s.type = "object" THEN Range(s.properties) ELSE {})
    \cup (IF s.type = "array" THEN Range(s.items) ELSE {})

\* Every node has a type or a non-empty keyword list whose members are valid.
RECURSIVE EveryNodeTyped(_)
EveryNodeTyped(s) ==
    \/ ~s.object
    \/ /\ \/ s.type # ""
          \/ \E k \in DOMAIN s.arrays :
                 /\ s.arrays[k] # <<>>
                 /\ \A i \in DOMAIN s.arrays[k] : EveryNodeTyped(s.arrays[k][i])
       /\ \A c \in Children(s) : EveryNodeTyped(c)

\* C19: hasValidTypes(s) is true exactly when every schema node of s has a
\* type or a non-empty anyOf/allOf/oneOf list whose members are all valid.
C19_ValidIffTyped ==
    valid # <<>> => (valid[1] <=> EveryNodeTyped(schema))

\* ------------------------------------------------------------- streaming
\* The lines of the body that end with a newline.
FramesOf(chunks) ==
    LET pieces == SplitLines(Flatten(chunks), <<>>, <<>>)
    IN  SubSeq(pieces, 1, Len(pieces) - 1)

\* One response for each well-formed data frame before the sentinel.
RECURSIVE ResponsesOf(_)
ResponsesOf(frames) ==
    IF frames = <<>> THEN <<>>
    ELSE LET frame == Head(frames)
         IN  IF frame # <<>> /\ Head(frame) = DataPrefix
             THEN IF Tail(frame) = << "[DONE]" >> THEN <<>>
                  ELSE (IF JsonParses(Tail(frame)) THEN Tail(frame) ELSE <<>>)
                       \o ResponsesOf(Tail(frames))
             ELSE ResponsesOf(Tail(frames))

CarriesContent(frame) ==
    /\ Len(frame) = 2
    /\ Head(frame) = DataPrefix
    /\ frame[2] \in {"c1", "c2"}

\* One response for each data frame with content before the sentinel.
RECURSIVE ContentResponsesOf(_)
ContentResponsesOf(frames) ==
    IF frames = <<>> THEN <<>>
    ELSE IF Head(frames) = << DataPrefix, "[DONE]" >> THEN <<>>
    ELSE (IF CarriesContent(Head(frames)) THEN << Head(frames)[2] >> ELSE <<>>)
         \o ContentResponsesOf(Tail(frames))

CurrentCancelled ==
    abortControllerRef # 0 /\ subs[abortControllerRef].aborted

\* C23: once the cancel key was accepted for a submission, a further escape
\* key event during that submission changes nothing; each submission is
\* cancelled at most once, with one "Request cancelled." item and one
\* cancel-submit notification.
C23_CancelIdempotent ==
    /\ [][(keyTick' # keyTick /\ CurrentCancelled) => NothingChanges]_vars
    /\ [](LET cancelled == {s \in 1..Len(subs) : subs[s].aborted}
          IN  /\ cancelSubmitCount = Cardinality(cancelled)
              /\ Cardinality({n \in 1..Len(history) : history[n] = CancelledItem})
                     = Cardinality(cancelled))

\* The cancelled submission's tool is still running, so the state is
\* Responding, and the key was pressed an even number of times of which one
\* was accepted.
C23_Witness ==
    /\ CurrentCancelled
    /\ streamingState = "Responding"
    /\ cancelSubmitCount = 1
    /\ keyTick = FALSE

\* --------------------------------------------------------- cancelled turns
\* A raw response arrives for submission s.
Arrives(s, r) == s \in 1..Len(subs) /\ TurnResponse(s, r, 0)

UserCancelledOnly == << Event("user_cancelled", <<>>) >>

\* C27: a raw response that arrives while the cancel signal is set yields
\* UserCancelled and nothing else, the Turn stops, and the response enters
\* neither the debug buffer nor the list of pending tool calls.
C27_CancelledResponseDropped ==
    [][\A s \in 1..MaxSubs, r \in Responses :
          (Arrives(s, r) /\ subs[s].aborted) =>
              /\ TurnEvents(r, subs[s].prompt_id, nextCall, subs[s].aborted)
                     = UserCancelledOnly
              /\ subs'[s].pc # "stream"
              /\ subs'[s].resps = subs[s].resps
              /\ subs'[s].reqs = subs[s].reqs
              /\ nextCall' = nextCall]_vars

\* A cancelled submission whose Turn has stopped at a response that arrived
\* after an earlier one was processed: the stream neither ended nor raised.
C27_Witness ==
    \E s \in 1..Len(subs) :
        /\ subs[s].aborted
        /\ subs[s].pc = "post"
        /\ subs[s].err = "none"
        /\ clientHistory = <<>>
        /\ Len(subs[s].resps) = 1

\* The backend request of submission s raises err inside Turn.run.
Throws(s, err) ==
    /\ s \in 1..Len(subs)
    /\ subs[s].pc = "stream"
    /\ subs'[s].err = err
    /\ subs'[s].pc # "stream"

\* C28: when the backend stream raises, a set cancel signal comes first, the
\* Turn emits UserCancelled and returns whatever the error is; otherwise an
\* auth error is raised again, and any other error gives one Error event.
C28_CancelBeforeAuth ==
    [][\A s \in 1..MaxSubs, err \in {"unauthorized", "other"} :
          Throws(s, err) =>
              IF subs[s].aborted
              THEN /\ authErrorCount' = authErrorCount
                   /\ Cardinality(ErrorItems(history')) = Cardinality(ErrorItems(history))
                   /\ subs'[s].pc = "post"
              ELSE IF err = "unauthorized"
              THEN /\ authErrorCount' = authErrorCount + 1
                   /\ subs'[s].pc = "done"
              ELSE /\ authErrorCount' = authErrorCount
                   /\ Cardinality(ErrorItems(history'))
                          = Cardinality(ErrorItems(history)) + 1]_vars

EventsOfType(events, type) == {i \in 1..Len(events) : events[i].type = type}

\* C29: a response processed with the cancel signal not set yields Finished
\* with its finish reason if it has one, whatever its parts, and one
\* ToolCallRequest and one pending tool call for each of its function calls.
C29_FinishAndCallsReported ==
    [][\A s \in 1..MaxSubs, r \in Responses :
          (Arrives(s, r) /\ ~subs[s].aborted) =>
              LET events == TurnEvents(r, subs[s].prompt_id, nextCall, FALSE)
              IN  /\ r.finish # "NONE" =>
                         \E i \in EventsOfType(events, "finished") :
                             events[i].value = r.finish
                  /\ Cardinality(EventsOfType(events, "tool_call_request")) = r.ncalls
                  /\ Len(subs'[s].reqs) = Len(subs[s].reqs) + r.ncalls]_vars

\* C30: when UserCancelled reaches the orchestrator, the tool-call requests
\* accumulated earlier in the turn are not passed to the scheduler, the info
\* item "Request cancelled." closes the turn's output and the post-stream
\* finalization is skipped.
C30_CancelStopsTurn ==
    [][\A s \in 1..MaxSubs, r \in Responses :
          (Arrives(s, r) /\ subs[s].aborted) =>
              /\ toolCalls' = toolCalls
              /\ nextBatch' = nextBatch
              /\ subs'[s].pc = "done"
              /\ history' # <<>> /\ history'[Len(history')] = CancelledItem]_vars

\* ------------------------------------------------- the router's conversions
\* The FunctionCall parts and the non-empty Text parts of a response.
RECURSIVE Carrying(_)
Carrying(parts) ==
    IF parts = <<>> THEN <<>>
    ELSE (IF Head(parts).kind = "text" /\ Head(parts).text = ""
          THEN <<>> ELSE << Head(parts) >>) \o Carrying(Tail(parts))

\* What the converted response is to carry for a message or a delta.
PartsFor(data) ==
    (IF data.tool_calls = <<>> THEN <<>>
     ELSE [i \in 1..Len(data.tool_calls[1]) |->
              RouterFunctionCallPart(data.tool_calls[1][i].name,
                               IF data.tool_calls[1][i].arguments = <<>>
                               THEN {}
                               ELSE JsonParse(data.tool_calls[1][i].arguments[1]))])
    \o (IF data.content = <<>> \/ data.content = << "" >>
        THEN <<>> ELSE << RouterTextPart(data.content[1]) >>)

\* C21: the response converted from a router message or a streamed delta
\* carries one FunctionCall part per tool call, in order and with the parsed
\* arguments, then one Text part for non-empty content, and functionCalls
\* lists the FunctionCall parts.  A delta for which no response is built
\* must have nothing to carry.
C21_PartsPerToolCallAndContent ==
    routerResponse # <<>> =>
        LET data == routerData[1]
            expected == PartsFor(data)
        IN  IF routerResponse[1] = <<>>
            THEN expected = <<>>
            ELSE /\ Carrying(routerResponse[1][1].parts) = expected
                 /\ routerResponse[1][1].functionCalls
                        = SelectSeq(expected, LAMBDA part : part.kind = "functionCall")

\* C22: the router messages of a request are one system message when a
\* system instruction is present, then one message per content, in order,
\* with role assistant for model and user for user.
C22_OneMessagePerContent ==
    routerMessages # <<>> =>
        LET request == routerRequest[1]
            messages == routerMessages[1]
            system == IF request.systemInstruction \in {<<>>, << "" >>} THEN 0 ELSE 1
        IN  /\ Len(messages) = system + Len(request.contents)
            /\ system = 1 => messages[1].role = "system"
            /\ \A i \in 1..Len(request.contents) :
                   messages[system + i].role
                       = IF request.contents[i].role = "model" THEN "assistant" ELSE "user"

\* --------------------------------------------------------- checkNextSpeaker
LastSpeakerIsModel ==
    chatHistory # <<>> /\ chatHistory[Len(chatHistory)] = "model"

\* C24: checkNextSpeaker returns the answer of the model exactly when the
\* last message of the history is the model's and the JSON call returned an
\* object whose next_speaker is the string user or model; otherwise it
\* returns null, and it makes no model call when the history is empty or
\* ends with a user message.
C24_NextSpeakerOnlyFromModel ==
    /\ ~LastSpeakerIsModel => generateJsonCalls = 0
    /\ speakerPc = "returned" =>
           LET answered ==
                   /\ LastSpeakerIsModel
                   /\ jsonAnswer # <<>>
                   /\ ~jsonAnswer[1].throws
                   /\ jsonAnswer[1].next_speaker \in
                          {<< [isString |-> TRUE, value |-> "user"] >>,
                           << [isString |-> TRUE, value |-> "model"] >>}
           IN  /\ generateJsonCalls = (IF LastSpeakerIsModel THEN 1 ELSE 0)
               /\ nextSpeakerResult = << IF answered THEN jsonAnswer ELSE <<>> >>

\* The call returned the model's answer that the user speaks next.
C24_Witness ==
    /\ speakerPc = "returned"
    /\ Len(chatHistory) > 1
    /\ nextSpeakerResult # << <<>> >>
    /\ nextSpeakerResult[1][1].next_speaker[1].value = "user"
    /\ generateJsonCalls = 1

CheckpointsOf(i) ==
    {n \in 1..Len(checkpoints) : checkpoints[n].callId = toolCalls[i].callId}

\* The i-th tracked call can be checkpointed.
Checkpointable(i) ==
    /\ toolRequests[i].name \in {"replace", "write_file"}
    /\ toolRequests[i].file_path # <<>>
    /\ checkpointConfig.checkpointingEnabled
    /\ checkpointConfig.projectTempDir
    /\ checkpointConfig.commitHash

\* C26, no checkpoint without cause: a checkpoint is written only with
\* checkpointing enabled, for a write_file or replace call, and while the
\* call awaits approval.
CheckpointsOnlyForRestorable ==
    /\ \A i \in 1..Len(toolCalls) : CheckpointsOf(i) # {} => Checkpointable(i)
    /\ ~checkpointConfig.checkpointingEnabled => checkpoints = <<>>

CheckpointsOnlyWhileAwaiting ==
    [][\A n \in 1..Len(checkpoints') :
          n > Len(checkpoints) =>
              \E i \in 1..Len(toolCalls) :
                  /\ toolCalls[i].callId = checkpoints'[n].callId
                  /\ toolCalls[i].status = "awaiting_approval"]_vars

\* C26: each time a restorable call enters awaiting_approval, with
\* checkpointing enabled, a project temp dir, a file_path and a commit hash,
\* one checkpoint is written for it, and none is ever written for another
\* tool name, another status, or with checkpointing disabled.  A call enters
\* awaiting_approval at most once, so no call has more than one checkpoint.
C26_OneCheckpointPerApproval ==
    /\ [](~EffectDue =>
            \A i \in 1..Len(toolCalls) :
                /\ (toolCalls[i].status = "awaiting_approval" /\ Checkpointable(i))
                       => CheckpointsOf(i) # {}
                /\ Cardinality(CheckpointsOf(i)) <= 1)
    /\ []CheckpointsOnlyForRestorable
    /\ CheckpointsOnlyWhileAwaiting

\* --------------------------------------------------------------- prompt ids
\* submitQuery call s goes on past its pre-processing at this step.
Proceeds(s) ==
    /\ s \in 1..Len(subs)
    /\ subs[s].pc = "prep"
    /\ subs'[s].pc = "stream"

DiscoveryEntered == discoveries' = discoveries + 1

\* A discoverMcpTools call returns at this step.
DiscoveryExited ==
    \E n \in Range(Servers) : mcpRuns[n].pc = "done" /\ mcpRuns'[n].pc = "returned"

\* C32: the discovery state starts at NOT_STARTED; when discoverMcpTools is
\* entered it becomes IN_PROGRESS, or COMPLETED at once when the call raises
\* before it starts a server; when a call exits it becomes COMPLETED; it
\* changes at no other step and never returns to NOT_STARTED; and a discovery
\* in progress is eventually completed.
C32_DiscoveryStateLifecycle ==
    /\ mcpDiscoveryState = "not_started"
    /\ [][/\ mcpDiscoveryState' # mcpDiscoveryState =>
                /\ mcpDiscoveryState' # "not_started"
                /\ DiscoveryEntered \/ DiscoveryExited
          /\ DiscoveryEntered =>
                mcpDiscoveryState' =
                    IF mcpRuns' = mcpRuns THEN "completed" ELSE "in_progress"
          /\ DiscoveryExited => mcpDiscoveryState' = "completed"]_vars
    /\ (mcpDiscoveryState = "in_progress") ~> (mcpDiscoveryState = "completed")

\* A call that raised was made after a call that returned normally.
C32_Witness ==
    /\ mcpDiscoveryState = "completed"
    /\ discoveries = 2
    /\ \E n \in Range(Servers) : mcpRuns[n].pc = "returned"
    /\ \E n \in Range(Servers) : mcpRuns[n].pc = "idle"

\* C36: whenever the discovery state is COMPLETED no server is CONNECTING.
C36_CompletedMeansNoneConnecting ==
    mcpDiscoveryState = "completed" =>
        \A n \in Range(Servers) : StatusIn(serverStatuses, n) # CONNECTING

\* ------------------------------------------------------ the streaming state
AwaitingApproval == \E i \in 1..Len(toolCalls) : toolCalls[i].status = "awaiting_approval"

Unfinished ==
    \E i \in 1..Len(toolCalls) :
        \/ toolCalls[i].status \in {"validating", "scheduled", "executing"}
        \/ /\ toolCalls[i].status \in {"success", "error", "cancelled"}
           /\ ~toolCalls[i].responseSubmitted

\* C35: the streaming state is WaitingForConfirmation exactly when some
\* tracked call awaits approval; otherwise it is Responding exactly when
\* isResponding holds or some tracked call is validating, scheduled, executing
\* or terminal and not marked submitted; otherwise it is Idle.  In Idle every
\* tracked call is terminal and marked submitted.
C35_StreamingStateDerived ==
    /\ streamingState \in {"WaitingForConfirmation", "Responding", "Idle"}
    /\ (streamingState = "WaitingForConfirmation") <=> AwaitingApproval
    /\ (streamingState = "Responding") <=>
           (~AwaitingApproval /\ (isResponding \/ Unfinished))
    /\ (streamingState = "Idle") <=>
           (~AwaitingApproval /\ ~isResponding /\ ~Unfinished)
    /\ streamingState = "Idle" =>
           \A i \in 1..Len(toolCalls) :
               /\ toolCalls[i].status \in {"success", "error", "cancelled"}
               /\ toolCalls[i].responseSubmitted

\* Idle with tracked calls, after a batch was submitted.
C35_Witness ==
    /\ streamingState = "Idle"
    /\ Len(toolCalls) = 2
    /\ \E i \in 1..Len(toolCalls) : toolCalls[i].status = "success"

\* ------------------------------------------------------ return to Idle
\* C33: under fairness, once a submission has been accepted the streaming
\* state is eventually Idle again, with isResponding false and every tracked
\* call terminal and marked submitted.
C33_EventuallyIdle ==
    (subs # <<>>) ~>
        /\ streamingState = "Idle"
        /\ ~isResponding
        /\ \A i \in 1..Len(toolCalls) :
               toolCalls[i].status \in TerminalStatus /\ toolCalls[i].responseSubmitted

\* ------------------------------------------- a submission after a cancel
\* A non-continuation submission made after submission s is running.
LaterTurnRuns(s) ==
    \E n \in (s + 1)..Len(subs) : ~subs[n].cont /\ subs[n].pc \in {"prep", "stream"}

\* C34: a response that arrives on the stream of a cancelled submission while
\* a later non-continuation submission runs appends no history item, leaves
\* the pending item as it is and does not set isResponding to false.
C34_CancelledTurnIsolated ==
    [][\A s \in 1..MaxSubs, r \in TextResponses :
          (Arrives(s, r) /\ subs[s].aborted /\ LaterTurnRuns(s)) =>
              /\ history' = history
              /\ pendingHistoryItemRef' = pendingHistoryItemRef
              /\ isResponding => isResponding']_vars

\* ------------------------------------------------------ the loop-halt item
LoopHaltAdded ==
    /\ Len(loopItems') > Len(loopItems)
    /\ loopItems'[Len(loopItems')].type = "loop_halt"

\* C39: the loop-halt item is added only at the end of a turn in which
\* LoopDetected was received, after the pending item of that turn was added,
\* and never for a LoopDetected of an earlier submission.
C39_LoopHaltOnlyInItsTurn ==
    [][LoopHaltAdded =>
          /\ loopPc = "stream" /\ loopPc' = "idle"
          /\ loopReceived
          /\ loopPending' = FALSE
          /\ loopPending =>
                loopItems'[Len(loopItems') - 1] = LoopItem("model", loopTurns)]_vars

\* ------------------------------------------------------ file filtering
RECURSIVE NotIgnoredFrom(_)
\* The paths from the i-th on for which shouldIgnoreFile returned false.
NotIgnoredFrom(i) ==
    IF i > Len(filePaths) THEN <<>>
    ELSE (IF ignoreResults[i] = << FALSE >> THEN << filePaths[i] >> ELSE <<>>)
             \o NotIgnoredFrom(i + 1)

\* C40: filterFiles returns the paths, in order, for which shouldIgnoreFile
\* with the same options returns false.
C40_FilterAgreesWithShouldIgnore ==
    (/\ filterResult # <<>>
     /\ \A i \in 1..Len(filePaths) : ignoreResults[i] # <<>>)
        => filterResult[1] = NotIgnoredFrom(1)

\* ------------------------------------------------------ finishing frames
\* C37: a streamed frame whose choice carries a finish_reason yields a
\* response with that finishReason, and the Turn emits Finished for it.
C37_FinishReasonCarried ==
    (routerData # <<>> /\ routerResponse # <<>> /\ routerData[1].finish_reason # <<>>) =>
        /\ routerResponse[1] # <<>>
        /\ routerResponse[1][1].finishReason = routerData[1].finish_reason
        /\ \E i \in DOMAIN RouterTurnEvents(routerResponse[1]) :
               RouterTurnEvents(routerResponse[1])[i]
                   = Event("finished", routerData[1].finish_reason[1])

\* ------------------------------------------------------ chunking
\* C38: what the generator has yielded when it is done depends on the text of
\* the body alone, not on its chunks: it is what the lines of the whole text
\* that end with a newline yield when they are processed in order.
C38_ChunkingIrrelevant ==
    generator = "done" =>
        yielded = ProcessLines(FramesOf(<< Flatten(body) >>), <<>>).yielded

\* The generator is done with a body in which a frame with content was cut
\* between two chunks, and it yielded that frame's response.
C38_Witness ==
    /\ generator = "done"
    /\ \E i \in 1..(Len(body) - 1) :
          /\ body[i] = << DataPrefix, "c1" >>
          /\ body[i + 1] = << "\n" >>
          /\ \A k \in 1..(i - 1) : body[k] # FrameOf("[DONE]")
    /\ "c1" \in Range(yielded)

====
